---- MODULE Spec2Model ----
(***************************************************************************)
(* A model of prompt-cache-engine: the radix trie (trie.py), the cache      *)
(* manager built on it (cache.py) and the configuration record (models.py). *)
(*                                                                          *)
(* Token sequences are TLA+ sequences; Python's 0-based position pos is     *)
(* kept 0-based, so tokens[pos] of the source is tokens[pos + 1] here.      *)
(* A trie node is identified by the token path from the root to the end of  *)
(* its edge label; the node records (tokens, children, cache_key, depth)    *)
(* are those of TrieNode.  Wall-clock time is the integer variable now.     *)
(***************************************************************************)
EXTENDS Integers, Sequences, FiniteSets, TLC

\* ------------------------------------------------------------ bounds
\* Token identifiers are 1..NumTokens, sequences have at most MaxLen tokens.
NumTokens == 2
MaxLen == 2
\* The clock runs from 1 to MaxTime.
MaxTime == 3
\* The number of calls (and clock advances) a run makes; it caps the
\* statistics counters, which otherwise grow without bound.
MaxOps == 4

Tokens == 1..NumTokens

RECURSIVE SeqsUpTo(_)
SeqsUpTo(n) ==
    IF n = 0 THEN {<<>>}
    ELSE LET S == SeqsUpTo(n - 1)
         IN S \cup {Append(s, t) : s \in {x \in S : Len(x) = n - 1}, t \in Tokens}

\* Every token sequence a caller may pass (the empty one included).
TokenSeqs == SeqsUpTo(MaxLen)

\* tokens[a:b] of Python, 0-based, end exclusive, clamped like a slice.
Slice(s, a, b) ==
    LET lo == IF a < 0 THEN 0 ELSE a
        hi == IF b > Len(s) THEN Len(s) ELSE b
    IN IF lo >= hi THEN <<>> ELSE SubSeq(s, lo + 1, hi)

IsPrefix(p, s) == Len(p) <= Len(s) /\ SubSeq(s, 1, Len(p)) = p

\* ------------------------------------------------------------ trie.py
\* Optional[str] None, as a value no hex key equals.
None == "None"

\* TrieNode(tokens, children, cache_key, depth); children maps the first
\* token of a child's label to the child (its node id).
TrieNode(tokens, children, cache_key, depth) ==
    [tokens |-> tokens, children |-> children, cache_key |-> cache_key,
     depth |-> depth]

NoChildren == [t \in {} |-> <<>>]

\* RadixTrie.__init__: an unmarked root and size 0.
RadixTrie ==
    [root |-> <<>>,
     nodes |-> (<<>> :> TrieNode(<<>>, NoChildren, None, 0)),
     size |-> 0]

\* The inner while loop shared by insert, find_longest_prefix and remove:
\* the number of leading tokens of child_tokens equal to tokens[pos:].
RECURSIVE common_prefix_len(_, _, _, _)
common_prefix_len(child_tokens, tokens, pos, n) ==
    IF /\ n < Len(child_tokens)
       /\ pos + n < Len(tokens)
       /\ child_tokens[n + 1] = tokens[pos + n + 1]
    THEN common_prefix_len(child_tokens, tokens, pos, n + 1)
    ELSE n

\* insert's loop with a split that leaves the split node unmarked when the
\* inserted sequence ends at it.
RECURSIVE insert_walk_unmarked_split(_, _, _, _, _)
insert_walk_unmarked_split(T, tokens, cache_key, node, pos) ==
    IF pos >= Len(tokens)
    THEN [T EXCEPT !.size = IF T.nodes[node].cache_key = None THEN @ + 1 ELSE @,
                   !.nodes[node].cache_key = cache_key]
    ELSE
    LET first_token == tokens[pos + 1] IN
    IF first_token \notin DOMAIN T.nodes[node].children
    THEN LET new_node == TrieNode(Slice(tokens, pos, Len(tokens)), NoChildren,
                                  cache_key, Len(tokens))
         IN [T EXCEPT
               !.nodes = [@ EXCEPT ![node].children = @ @@ (first_token :> tokens)]
                         @@ (tokens :> new_node),
               !.size = @ + 1]
    ELSE
    LET child == T.nodes[node].children[first_token]
        child_tokens == T.nodes[child].tokens
        common_len == common_prefix_len(child_tokens, tokens, pos, 0)
    IN
    IF common_len = Len(child_tokens)
    THEN insert_walk_unmarked_split(T, tokens, cache_key, child, pos + common_len)
    ELSE
    LET split_id == Slice(tokens, 0, pos + common_len)
        rest == Slice(child_tokens, common_len, Len(child_tokens))
        remaining == Slice(tokens, pos + common_len, Len(tokens))
        split_children ==
            IF remaining # <<>>
            THEN (remaining[1] :> tokens) @@ (rest[1] :> child)
            ELSE (rest[1] :> child)
        split_node ==
            TrieNode(Slice(child_tokens, 0, common_len), split_children, None,
                     T.nodes[node].depth + common_len)
        moved == [T.nodes EXCEPT ![child].tokens = rest,
                                 ![node].children[first_token] = split_id]
        with_split == (split_id :> split_node) @@ moved
        with_leaf ==
            IF remaining # <<>>
            THEN (tokens :> TrieNode(remaining, NoChildren, cache_key, Len(tokens)))
                 @@ with_split
            ELSE with_split
    IN [T EXCEPT !.nodes = with_leaf, !.size = @ + 1]

\* The body of insert's outer while loop, from node at position pos.
RECURSIVE insert_walk(_, _, _, _, _)
insert_walk(T, tokens, cache_key, node, pos) ==
    IF pos >= Len(tokens)
    THEN \* reached the end of tokens exactly at an existing node
         [T EXCEPT !.size = IF T.nodes[node].cache_key = None THEN @ + 1 ELSE @,
                   !.nodes[node].cache_key = cache_key]
    ELSE
    LET first_token == tokens[pos + 1] IN
    IF first_token \notin DOMAIN T.nodes[node].children
    THEN \* no matching child: a new leaf
         LET new_node == TrieNode(Slice(tokens, pos, Len(tokens)), NoChildren,
                                  cache_key, Len(tokens))
         IN [T EXCEPT
               !.nodes = [@ EXCEPT ![node].children = @ @@ (first_token :> tokens)]
                         @@ (tokens :> new_node),
               !.size = @ + 1]
    ELSE
    LET child == T.nodes[node].children[first_token]
        child_tokens == T.nodes[child].tokens
        common_len == common_prefix_len(child_tokens, tokens, pos, 0)
    IN
    IF common_len = Len(child_tokens)
    THEN insert_walk(T, tokens, cache_key, child, pos + common_len)
    ELSE \* partial match: split the edge
    LET split_id == Slice(tokens, 0, pos + common_len)
        rest == Slice(child_tokens, common_len, Len(child_tokens))
        remaining == Slice(tokens, pos + common_len, Len(tokens))
        \* two dict assignments: the later one (the new leaf) wins on a clash
        split_children ==
            IF remaining # <<>>
            THEN (remaining[1] :> tokens) @@ (rest[1] :> child)
            ELSE (rest[1] :> child)
        split_node ==
            TrieNode(Slice(child_tokens, 0, common_len), split_children,
                     IF remaining # <<>> THEN None ELSE cache_key,
                     T.nodes[node].depth + common_len)
        moved == [T.nodes EXCEPT ![child].tokens = rest,
                                 ![node].children[first_token] = split_id]
        with_split == (split_id :> split_node) @@ moved
        with_leaf ==
            IF remaining # <<>>
            THEN (tokens :> TrieNode(remaining, NoChildren, cache_key, Len(tokens)))
                 @@ with_split
            ELSE with_split
    IN [T EXCEPT !.nodes = with_leaf, !.size = @ + 1]

\* insert that returns at once: the index is never written.
insert_noop(T, tokens, cache_key) == T

\* insert counting every call of a non-empty sequence as a new entry.
insert_counts_always(T, tokens, cache_key) ==
    IF tokens = <<>> THEN T
    ELSE [insert_walk(T, tokens, cache_key, T.root, 0) EXCEPT !.size = T.size + 1]

\* insert without the return on an empty sequence: the walk ends at once,
\* at the root, and marks it.
insert_marks_root(T, tokens, cache_key) ==
    insert_walk(T, tokens, cache_key, T.root, 0)

\* RadixTrie.insert
insert(T, tokens, cache_key) ==
    IF tokens = <<>> THEN T
    ELSE insert_walk(T, tokens, cache_key, T.root, 0)

\* find_longest_prefix's loop forgetting the best match so far when no child
\* continues the query.
RECURSIVE find_walk_no_fallback(_, _, _, _, _, _)
find_walk_no_fallback(T, tokens, node, pos, best_length, best_key) ==
    IF pos >= Len(tokens) THEN <<best_length, best_key>>
    ELSE
    LET first_token == tokens[pos + 1] IN
    IF first_token \notin DOMAIN T.nodes[node].children
    THEN <<0, None>>
    ELSE
    LET child == T.nodes[node].children[first_token]
        child_tokens == T.nodes[child].tokens
        match_len == common_prefix_len(child_tokens, tokens, pos, 0)
    IN
    IF match_len < Len(child_tokens)
    THEN <<best_length, best_key>>
    ELSE IF T.nodes[child].cache_key # None
         THEN find_walk_no_fallback(T, tokens, child, pos + match_len,
                                    pos + match_len, T.nodes[child].cache_key)
         ELSE find_walk_no_fallback(T, tokens, child, pos + match_len,
                                    best_length, best_key)

\* find_longest_prefix's loop returning at the first marker it meets.
RECURSIVE find_walk_first_marker(_, _, _, _, _, _)
find_walk_first_marker(T, tokens, node, pos, best_length, best_key) ==
    IF pos >= Len(tokens) THEN <<best_length, best_key>>
    ELSE
    LET first_token == tokens[pos + 1] IN
    IF first_token \notin DOMAIN T.nodes[node].children
    THEN <<best_length, best_key>>
    ELSE
    LET child == T.nodes[node].children[first_token]
        child_tokens == T.nodes[child].tokens
        match_len == common_prefix_len(child_tokens, tokens, pos, 0)
    IN
    IF match_len < Len(child_tokens)
    THEN <<best_length, best_key>>
    ELSE IF T.nodes[child].cache_key # None
         THEN <<pos + match_len, T.nodes[child].cache_key>>
         ELSE find_walk_first_marker(T, tokens, child, pos + match_len,
                                     best_length, best_key)

\* The body of find_longest_prefix's while loop; returns <<best_length, best_key>>.
RECURSIVE find_walk(_, _, _, _, _, _)
find_walk(T, tokens, node, pos, best_length, best_key) ==
    IF pos >= Len(tokens) THEN <<best_length, best_key>>
    ELSE
    LET first_token == tokens[pos + 1] IN
    IF first_token \notin DOMAIN T.nodes[node].children
    THEN <<best_length, best_key>>
    ELSE
    LET child == T.nodes[node].children[first_token]
        child_tokens == T.nodes[child].tokens
        match_len == common_prefix_len(child_tokens, tokens, pos, 0)
    IN
    IF match_len < Len(child_tokens)
    THEN <<best_length, best_key>>
    ELSE IF T.nodes[child].cache_key # None
         THEN find_walk(T, tokens, child, pos + match_len,
                        pos + match_len, T.nodes[child].cache_key)
         ELSE find_walk(T, tokens, child, pos + match_len, best_length, best_key)

\* RadixTrie.find_longest_prefix
find_longest_prefix(T, tokens) ==
    IF tokens = <<>> THEN <<0, None>>
    ELSE find_walk(T, tokens, T.root, 0, 0, T.nodes[T.root].cache_key)

\* The walk of remove: the node whose path is tokens, or None.
RECURSIVE remove_walk(_, _, _, _)
remove_walk(T, tokens, node, pos) ==
    IF pos >= Len(tokens) THEN <<TRUE, node>>
    ELSE
    LET first_token == tokens[pos + 1] IN
    IF first_token \notin DOMAIN T.nodes[node].children
    THEN <<FALSE, node>>
    ELSE
    LET child == T.nodes[node].children[first_token]
        match_len == common_prefix_len(T.nodes[child].tokens, tokens, pos, 0)
    IN
    IF match_len < Len(T.nodes[child].tokens)
    THEN <<FALSE, node>>
    ELSE remove_walk(T, tokens, child, pos + match_len)

\* remove that reports the removal and counts it but leaves the marker.
remove_keeps_marker(T, tokens) ==
    IF tokens = <<>> THEN [trie |-> T, removed |-> FALSE]
    ELSE
    LET w == remove_walk(T, tokens, T.root, 0) IN
    IF ~w[1] \/ T.nodes[w[2]].cache_key = None
    THEN [trie |-> T, removed |-> FALSE]
    ELSE [trie |-> [T EXCEPT !.size = @ - 1], removed |-> TRUE]

\* remove without the test for a node that carries no marker.
remove_unmarked_too(T, tokens) ==
    IF tokens = <<>> THEN [trie |-> T, removed |-> FALSE]
    ELSE
    LET w == remove_walk(T, tokens, T.root, 0) IN
    IF ~w[1]
    THEN [trie |-> T, removed |-> FALSE]
    ELSE [trie |-> [T EXCEPT !.nodes[w[2]].cache_key = None, !.size = @ - 1],
          removed |-> TRUE]

\* remove that finds nothing and leaves every marker in place.
remove_noop(T, tokens) == [trie |-> T, removed |-> FALSE]

\* RadixTrie.remove: the trie afterwards and the returned boolean.
remove(T, tokens) ==
    IF tokens = <<>> THEN [trie |-> T, removed |-> FALSE]
    ELSE
    LET w == remove_walk(T, tokens, T.root, 0) IN
    IF ~w[1] \/ T.nodes[w[2]].cache_key = None
    THEN [trie |-> T, removed |-> FALSE]
    ELSE [trie |-> [T EXCEPT !.nodes[w[2]].cache_key = None, !.size = @ - 1],
          removed |-> TRUE]

\* RadixTrie._collect_entries over the children listed in order;
\* returns the sequence of <<token_sequence, cache_key>> pairs.
RECURSIVE collect_entries(_, _, _)
RECURSIVE collect_children(_, _, _, _)
\* _collect_entries reporting a node under its own label, without the
\* prefix accumulated above it.
collect_entries_own_label(T, node, prefix) ==
    LET current == T.nodes[node].tokens
        own == IF T.nodes[node].cache_key # None
               THEN << <<current, T.nodes[node].cache_key>> >>
               ELSE <<>>
    IN own \o collect_children(T, node, current, DOMAIN T.nodes[node].children)

collect_entries(T, node, prefix) ==
    LET current == prefix \o T.nodes[node].tokens
        own == IF T.nodes[node].cache_key # None
               THEN << <<current, T.nodes[node].cache_key>> >>
               ELSE <<>>
    IN own \o collect_children(T, node, current, DOMAIN T.nodes[node].children)

collect_children(T, node, current, todo) ==
    IF todo = {} THEN <<>>
    ELSE LET t == CHOOSE x \in todo : \A y \in todo : x <= y
         IN collect_entries(T, T.nodes[node].children[t], current)
            \o collect_children(T, node, current, todo \ {t})

\* RadixTrie.get_all_entries
get_all_entries(T) == collect_entries(T, T.root, <<>>)

\* ------------------------------------------------------------ models.py
\* CacheConfig; max_memory_mb is a float, kept as the fraction num/den.
CacheConfig(max_entries, max_memory_mb, default_ttl_seconds, eviction_policy, min_prefix_length) ==
    [max_entries |-> max_entries, max_memory_mb |-> max_memory_mb,
     default_ttl_seconds |-> default_ttl_seconds,
     eviction_policy |-> eviction_policy,
     min_prefix_length |-> min_prefix_length]

Mb(num, den) == [num |-> num, den |-> den]

\* CacheConfig.__post_init__: "ok", or the ValueError it raises.
CacheConfig_post_init(c) ==
    IF c.max_entries < 1 THEN "ValueError: max_entries"
    ELSE IF c.max_memory_mb.num <= 0 THEN "ValueError: max_memory_mb"
    ELSE IF c.eviction_policy \notin {"lru", "lfu"} THEN "ValueError: eviction_policy"
    ELSE IF c.min_prefix_length < 1 THEN "ValueError: min_prefix_length"
    ELSE "ok"

\* PrefixMatch with the two token fields filled the wrong way round.
PrefixMatch_swapped(matched_tokens, matched_length, total_length, cache_key, remaining_tokens, hit) ==
    [matched_tokens |-> remaining_tokens, matched_length |-> matched_length,
     total_length |-> total_length, cache_key |-> cache_key,
     remaining_tokens |-> matched_tokens, hit |-> hit]

\* PrefixMatch
PrefixMatch(matched_tokens, matched_length, total_length, cache_key, remaining_tokens, hit) ==
    [matched_tokens |-> matched_tokens, matched_length |-> matched_length,
     total_length |-> total_length, cache_key |-> cache_key,
     remaining_tokens |-> remaining_tokens, hit |-> hit]

\* PrefixMatch(total_length=n, hit=False): every other field at its default.
MissMatch(n) == PrefixMatch(<<>>, 0, n, "", <<>>, FALSE)

\* CacheStats(): the accumulated counters (entries_count and memory_used_mb
\* are filled in by the stats property, below).
CacheStats ==
    [total_lookups |-> 0, cache_hits |-> 0, cache_misses |-> 0,
     total_tokens_served |-> 0, total_tokens_requested |-> 0, evictions |-> 0]

\* ------------------------------------------------------------ cache.py
BYTES_PER_TOKEN_DEFAULT == 2048

HexChars == <<"0", "1", "2", "3", "4", "5", "6", "7",
              "8", "9", "a", "b", "c", "d", "e", "f">>

HexByte(b) == HexChars[(b \div 16) + 1] \o HexChars[(b % 16) + 1]

\* t.to_bytes(4, byteorder="big", signed=True), in hex: the four bytes of
\* the two's-complement encoding (\div rounds down, % is non-negative).
to_bytes4_hex(t) ==
    HexByte((t \div 16777216) % 256) \o HexByte((t \div 65536) % 256)
    \o HexByte((t \div 256) % 256) \o HexByte(t % 256)

RECURSIVE token_bytes_hex(_)
token_bytes_hex(tokens) ==
    IF tokens = <<>> THEN ""
    ELSE to_bytes4_hex(Head(tokens)) \o token_bytes_hex(Tail(tokens))

\* _compute_cache_key: the digest of the encoded tokens.  SHA-256 is taken
\* as collision-free: the key is the digest's input, tagged.
\* It is tabulated once over the sequences in use.
KeyTable == [s \in TokenSeqs |-> "sha256:" \o token_bytes_hex(s)]

compute_cache_key(tokens) == KeyTable[tokens]

\* CacheEntry as store builds it, after __post_init__ at time t; kv_data is
\* opaque to the manager.
CacheEntry(cache_key, tokens, kv_data, memory_bytes, t) ==
    LET token_count == Len(tokens)
    IN [cache_key |-> cache_key, tokens |-> tokens, kv_data |-> kv_data,
        token_count |-> token_count,
        memory_bytes |-> IF memory_bytes = 0
                         THEN token_count * BYTES_PER_TOKEN_DEFAULT
                         ELSE memory_bytes,
        created_at |-> t, last_accessed |-> t, access_count |-> 0]

\* The manager's mutable fields as one value:
\*   trie (_trie), entries (_entries, the OrderedDict as the sequence of its
\*   values, least recently used first), total_memory_bytes, stats (_stats).
Manager(trie, entries, total_memory_bytes, stats) ==
    [trie |-> trie, entries |-> entries,
     total_memory_bytes |-> total_memory_bytes, stats |-> stats]

\* CacheManager.__init__
NewManager == Manager(RadixTrie, <<>>, 0, CacheStats)

Keys(entries) == {entries[i].cache_key : i \in 1..Len(entries)}

IndexOf(entries, cache_key) ==
    CHOOSE i \in 1..Len(entries) : entries[i].cache_key = cache_key

RemoveAt(s, i) == SubSeq(s, 1, i - 1) \o SubSeq(s, i + 1, Len(s))

\* OrderedDict.move_to_end
move_to_end(entries, cache_key) ==
    LET i == IndexOf(entries, cache_key)
    IN Append(RemoveAt(entries, i), entries[i])

\* The access update without the move_to_end call.
touch_without_move(entries, cache_key, t) ==
    LET i == IndexOf(entries, cache_key)
    IN [entries EXCEPT ![i].last_accessed = t, ![i].access_count = @ + 1]

\* The access update without the access_count increment.
touch_without_count(entries, cache_key, t) ==
    LET i == IndexOf(entries, cache_key)
    IN move_to_end([entries EXCEPT ![i].last_accessed = t], cache_key)

\* The access update writing created_at along with last_accessed.
touch_resets_created_at(entries, cache_key, t) ==
    LET i == IndexOf(entries, cache_key)
    IN move_to_end([entries EXCEPT ![i].last_accessed = t,
                                   ![i].created_at = t,
                                   ![i].access_count = @ + 1], cache_key)

\* entry.last_accessed = time.time(); entry.access_count += 1; move_to_end
touch(entries, cache_key, t) ==
    LET i == IndexOf(entries, cache_key)
    IN move_to_end([entries EXCEPT ![i].last_accessed = t,
                                   ![i].access_count = @ + 1], cache_key)

\* _is_expired comparing with >= : an entry expires one tick early.
is_expired_early(c, entry, t) ==
    IF c.default_ttl_seconds <= 0 THEN FALSE
    ELSE (t - entry.created_at) >= c.default_ttl_seconds

\* CacheManager._is_expired at time t
is_expired(c, entry, t) ==
    IF c.default_ttl_seconds <= 0 THEN FALSE
    ELSE (t - entry.created_at) > c.default_ttl_seconds

\* _evict_entry without the call of self._trie.remove.
evict_entry_keeps_marker(m, cache_key) ==
    IF cache_key \notin Keys(m.entries) THEN [m |-> m, ret |-> FALSE]
    ELSE
    LET i == IndexOf(m.entries, cache_key)
        entry == m.entries[i]
    IN [m |-> [m EXCEPT !.entries = RemoveAt(@, i),
                        !.total_memory_bytes = @ - entry.memory_bytes,
                        !.stats.evictions = @ + 1],
        ret |-> TRUE]

\* _evict_entry without the evictions increment.
evict_entry_uncounted(m, cache_key) ==
    IF cache_key \notin Keys(m.entries) THEN [m |-> m, ret |-> FALSE]
    ELSE
    LET i == IndexOf(m.entries, cache_key)
        entry == m.entries[i]
    IN [m |-> [m EXCEPT !.entries = RemoveAt(@, i),
                        !.trie = remove(@, entry.tokens).trie,
                        !.total_memory_bytes = @ - entry.memory_bytes],
        ret |-> TRUE]

\* CacheManager._evict_entry: the manager afterwards and the returned boolean.
evict_entry(m, cache_key) ==
    IF cache_key \notin Keys(m.entries) THEN [m |-> m, ret |-> FALSE]
    ELSE
    LET i == IndexOf(m.entries, cache_key)
        entry == m.entries[i]
    IN [m |-> [m EXCEPT !.entries = RemoveAt(@, i),
                        !.trie = remove(@, entry.tokens).trie,
                        !.total_memory_bytes = @ - entry.memory_bytes,
                        !.stats.evictions = @ + 1],
        ret |-> TRUE]

\* The most recently used key instead of the least recently used one.
lru_key_newest(entries) == entries[Len(entries)].cache_key

\* next(iter(self._entries)): the least recently used key.
lru_key(entries) == entries[1].cache_key

\* The first key in dict order, whatever the access counts.
lfu_key_ignores_count(entries) == entries[1].cache_key

\* min(self._entries, key=access_count): the first key, in dict order,
\* whose access_count is minimal.
lfu_key(entries) ==
    LET i == CHOOSE j \in 1..Len(entries) :
                 /\ \A k \in 1..Len(entries) :
                        entries[j].access_count <= entries[k].access_count
                 /\ \A k \in 1..(j - 1) :
                        entries[k].access_count > entries[j].access_count
    IN entries[i].cache_key

\* The key _evict_one picks (the map is non-empty).
evict_one_key(c, entries) ==
    IF c.eviction_policy = "lru" THEN lru_key(entries)
    ELSE lfu_key(entries)

\* CacheManager._evict_one
evict_one(c, m) ==
    IF m.entries = <<>> THEN m
    ELSE IF c.eviction_policy \in {"lru", "lfu"}
         THEN evict_entry(m, evict_one_key(c, m.entries)).m
         ELSE m

\* int(self.config.max_memory_mb * 1024 * 1024)
max_memory_bytes(c) == (c.max_memory_mb.num * 1024 * 1024) \div c.max_memory_mb.den

\* The loop condition without its two limits: true while the map holds
\* an entry.
over_capacity_until_empty(c, m, needed_bytes) == m.entries # <<>>

\* The loop condition of _ensure_capacity.
over_capacity(c, m, needed_bytes) ==
    /\ \/ Len(m.entries) >= c.max_entries
       \/ m.total_memory_bytes + needed_bytes > max_memory_bytes(c)
    /\ m.entries # <<>>

\* The while loop of _ensure_capacity; evicted lists the keys it evicted.
RECURSIVE ensure_capacity_loop(_, _, _, _, _, _)
ensure_capacity_loop(c, m, needed_bytes, eviction_attempts, max_attempts, evicted) ==
    IF ~over_capacity(c, m, needed_bytes)
    THEN [m |-> m, raised |-> FALSE, evicted |-> evicted]
    ELSE IF eviction_attempts + 1 > max_attempts
    THEN [m |-> m, raised |-> TRUE, evicted |-> evicted]
    ELSE ensure_capacity_loop(c, evict_one(c, m), needed_bytes,
                              eviction_attempts + 1, max_attempts,
                              Append(evicted, evict_one_key(c, m.entries)))

\* CacheManager._ensure_capacity
ensure_capacity(c, m, needed_bytes) ==
    ensure_capacity_loop(c, m, needed_bytes, 0, Len(m.entries) + 1, <<>>)

StoreResult(m, key, raised, evicted) ==
    [m |-> m, key |-> key, raised |-> raised, evicted |-> evicted]

\* store without its first check, len(tokens) < min_prefix_length.
store_without_length_check(c, m, tokens, kv_data, memory_bytes, t) ==
    LET cache_key == compute_cache_key(tokens) IN
    IF cache_key \in Keys(m.entries)
    THEN StoreResult([m EXCEPT !.entries = touch(@, cache_key, t)],
                     cache_key, FALSE, <<>>)
    ELSE
    LET entry == CacheEntry(cache_key, tokens, kv_data,
                            IF memory_bytes # 0 THEN memory_bytes
                            ELSE Len(tokens) * BYTES_PER_TOKEN_DEFAULT, t)
        cap == ensure_capacity(c, m, entry.memory_bytes)
    IN IF cap.raised
       THEN StoreResult(cap.m, "", TRUE, cap.evicted)
       ELSE StoreResult(
                [cap.m EXCEPT !.entries = Append(@, entry),
                              !.trie = insert(@, tokens, cache_key),
                              !.total_memory_bytes = @ + entry.memory_bytes],
                cache_key, FALSE, cap.evicted)

\* CacheManager.store at time t: the manager afterwards, the returned key,
\* whether CacheFullError was raised, and the keys evicted on the way.
store(c, m, tokens, kv_data, memory_bytes, t) ==
    IF Len(tokens) < c.min_prefix_length
    THEN StoreResult(m, "", FALSE, <<>>)
    ELSE
    LET cache_key == compute_cache_key(tokens) IN
    IF cache_key \in Keys(m.entries)
    THEN StoreResult([m EXCEPT !.entries = touch(@, cache_key, t)],
                     cache_key, FALSE, <<>>)
    ELSE
    LET entry == CacheEntry(cache_key, tokens, kv_data,
                            IF memory_bytes # 0 THEN memory_bytes
                            ELSE Len(tokens) * BYTES_PER_TOKEN_DEFAULT, t)
        cap == ensure_capacity(c, m, entry.memory_bytes)
    IN IF cap.raised
       THEN StoreResult(cap.m, "", TRUE, cap.evicted)
       ELSE StoreResult(
                [cap.m EXCEPT !.entries = Append(@, entry),
                              !.trie = insert(@, tokens, cache_key),
                              !.total_memory_bytes = @ + entry.memory_bytes],
                cache_key, FALSE, cap.evicted)

LookupResult(m, match, evicted) == [m |-> m, match |-> match, evicted |-> evicted]

\* lookup without the matched_len < min_prefix_length test.
lookup_without_min_check(c, m, tokens, t) ==
    LET counted == [m EXCEPT !.stats.total_lookups = @ + 1,
                             !.stats.total_tokens_requested = @ + Len(tokens)]
        found == find_longest_prefix(m.trie, tokens)
        matched_len == found[1]
        cache_key == found[2]
        missed == [counted EXCEPT !.stats.cache_misses = @ + 1]
    IN
    IF cache_key = None
    THEN LookupResult(missed, MissMatch(Len(tokens)), <<>>)
    ELSE IF cache_key \notin Keys(m.entries)
    THEN LookupResult(missed, MissMatch(Len(tokens)), <<>>)
    ELSE IF is_expired(c, m.entries[IndexOf(m.entries, cache_key)], t)
    THEN LookupResult(
             [evict_entry(counted, cache_key).m EXCEPT !.stats.cache_misses = @ + 1],
             MissMatch(Len(tokens)), <<cache_key>>)
    ELSE LookupResult(
             [counted EXCEPT !.entries = touch(@, cache_key, t),
                             !.stats.cache_hits = @ + 1,
                             !.stats.total_tokens_served = @ + matched_len],
             PrefixMatch(Slice(tokens, 0, matched_len), matched_len, Len(tokens),
                         cache_key, Slice(tokens, matched_len, Len(tokens)), TRUE),
             <<>>)

\* lookup without the cache_misses increment of the expired-entry branch.
lookup_uncounted_expiry(c, m, tokens, t) ==
    LET counted == [m EXCEPT !.stats.total_lookups = @ + 1,
                             !.stats.total_tokens_requested = @ + Len(tokens)]
        found == find_longest_prefix(m.trie, tokens)
        matched_len == found[1]
        cache_key == found[2]
        missed == [counted EXCEPT !.stats.cache_misses = @ + 1]
    IN
    IF cache_key = None \/ matched_len < c.min_prefix_length
    THEN LookupResult(missed, MissMatch(Len(tokens)), <<>>)
    ELSE IF cache_key \notin Keys(m.entries)
    THEN LookupResult(missed, MissMatch(Len(tokens)), <<>>)
    ELSE IF is_expired(c, m.entries[IndexOf(m.entries, cache_key)], t)
    THEN LookupResult(evict_entry(counted, cache_key).m,
                      MissMatch(Len(tokens)), <<cache_key>>)
    ELSE LookupResult(
             [counted EXCEPT !.entries = touch(@, cache_key, t),
                             !.stats.cache_hits = @ + 1,
                             !.stats.total_tokens_served = @ + matched_len],
             PrefixMatch(Slice(tokens, 0, matched_len), matched_len, Len(tokens),
                         cache_key, Slice(tokens, matched_len, Len(tokens)), TRUE),
             <<>>)

\* lookup returning the miss for an expired entry without evicting it.
lookup_expiry_keeps_entry(c, m, tokens, t) ==
    LET counted == [m EXCEPT !.stats.total_lookups = @ + 1,
                             !.stats.total_tokens_requested = @ + Len(tokens)]
        found == find_longest_prefix(m.trie, tokens)
        matched_len == found[1]
        cache_key == found[2]
        missed == [counted EXCEPT !.stats.cache_misses = @ + 1]
    IN
    IF cache_key = None \/ matched_len < c.min_prefix_length
    THEN LookupResult(missed, MissMatch(Len(tokens)), <<>>)
    ELSE IF cache_key \notin Keys(m.entries)
    THEN LookupResult(missed, MissMatch(Len(tokens)), <<>>)
    ELSE IF is_expired(c, m.entries[IndexOf(m.entries, cache_key)], t)
    THEN LookupResult(missed, MissMatch(Len(tokens)), <<cache_key>>)
    ELSE LookupResult(
             [counted EXCEPT !.entries = touch(@, cache_key, t),
                             !.stats.cache_hits = @ + 1,
                             !.stats.total_tokens_served = @ + matched_len],
             PrefixMatch(Slice(tokens, 0, matched_len), matched_len, Len(tokens),
                         cache_key, Slice(tokens, matched_len, Len(tokens)), TRUE),
             <<>>)

\* lookup counting every miss as an eviction as well.
lookup_miss_counts_eviction(c, m, tokens, t) ==
    LET counted == [m EXCEPT !.stats.total_lookups = @ + 1,
                             !.stats.total_tokens_requested = @ + Len(tokens)]
        found == find_longest_prefix(m.trie, tokens)
        matched_len == found[1]
        cache_key == found[2]
        missed == [counted EXCEPT !.stats.cache_misses = @ + 1,
                                  !.stats.evictions = @ + 1]
    IN
    IF cache_key = None \/ matched_len < c.min_prefix_length
    THEN LookupResult(missed, MissMatch(Len(tokens)), <<>>)
    ELSE IF cache_key \notin Keys(m.entries)
    THEN LookupResult(missed, MissMatch(Len(tokens)), <<>>)
    ELSE IF is_expired(c, m.entries[IndexOf(m.entries, cache_key)], t)
    THEN LookupResult(
             [evict_entry(counted, cache_key).m EXCEPT !.stats.cache_misses = @ + 1],
             MissMatch(Len(tokens)), <<cache_key>>)
    ELSE LookupResult(
             [counted EXCEPT !.entries = touch(@, cache_key, t),
                             !.stats.cache_hits = @ + 1,
                             !.stats.total_tokens_served = @ + matched_len],
             PrefixMatch(Slice(tokens, 0, matched_len), matched_len, Len(tokens),
                         cache_key, Slice(tokens, matched_len, Len(tokens)), TRUE),
             <<>>)

\* CacheManager.lookup at time t: the manager afterwards, the PrefixMatch
\* returned and the keys evicted (a TTL invalidation).
lookup(c, m, tokens, t) ==
    LET counted == [m EXCEPT !.stats.total_lookups = @ + 1,
                             !.stats.total_tokens_requested = @ + Len(tokens)]
        found == find_longest_prefix(m.trie, tokens)
        matched_len == found[1]
        cache_key == found[2]
        missed == [counted EXCEPT !.stats.cache_misses = @ + 1]
    IN
    IF cache_key = None \/ matched_len < c.min_prefix_length
    THEN LookupResult(missed, MissMatch(Len(tokens)), <<>>)
    ELSE IF cache_key \notin Keys(m.entries)
    THEN LookupResult(missed, MissMatch(Len(tokens)), <<>>)
    ELSE IF is_expired(c, m.entries[IndexOf(m.entries, cache_key)], t)
    THEN LookupResult(
             [evict_entry(counted, cache_key).m EXCEPT !.stats.cache_misses = @ + 1],
             MissMatch(Len(tokens)), <<cache_key>>)
    ELSE LookupResult(
             [counted EXCEPT !.entries = touch(@, cache_key, t),
                             !.stats.cache_hits = @ + 1,
                             !.stats.total_tokens_served = @ + matched_len],
             PrefixMatch(Slice(tokens, 0, matched_len), matched_len, Len(tokens),
                         cache_key, Slice(tokens, matched_len, Len(tokens)), TRUE),
             <<>>)

\* clear without the reset of _total_memory_bytes.
clear_keeps_bytes(m) == [m EXCEPT !.entries = <<>>, !.trie = RadixTrie]

\* clear without the replacement of the index by a fresh tree.
clear_keeps_index(m) == [m EXCEPT !.entries = <<>>, !.total_memory_bytes = 0]

\* clear counting the entries it removes as evictions.
clear_counts_evictions(m) ==
    [m EXCEPT !.entries = <<>>, !.trie = RadixTrie, !.total_memory_bytes = 0,
              !.stats.evictions = @ + Len(m.entries)]

\* CacheManager.clear
clear(m) == [m EXCEPT !.entries = <<>>, !.trie = RadixTrie,
                      !.total_memory_bytes = 0]

\* The stats property: the counters with entries_count and memory_used_mb
\* (total_memory_bytes / (1024 * 1024), kept as a fraction) filled in.
stats_of(m) ==
    [total_lookups |-> m.stats.total_lookups,
     cache_hits |-> m.stats.cache_hits,
     cache_misses |-> m.stats.cache_misses,
     total_tokens_served |-> m.stats.total_tokens_served,
     total_tokens_requested |-> m.stats.total_tokens_requested,
     evictions |-> m.stats.evictions,
     entries_count |-> Len(m.entries),
     memory_used_mb |-> Mb(m.total_memory_bytes, 1024 * 1024)]

\* ------------------------------------------------------------ analyze_batch
\* BatchAnalysis; shared_prefix_groups is the dict as a function from
\* prefix keys to lists of (0-based) sequence indices.
BatchAnalysis(batch_size, unique_prefixes, shared_prefix_groups, potential_savings_tokens, total_tokens) ==
    [batch_size |-> batch_size, unique_prefixes |-> unique_prefixes,
     shared_prefix_groups |-> shared_prefix_groups,
     potential_savings_tokens |-> potential_savings_tokens,
     total_tokens |-> total_tokens]

\* _compute_cache_key(prefix)[:8]; the truncated digest is taken as
\* collision-free, like the key itself.
prefix_key(prefix) == "sha256[:8]:" \o token_bytes_hex(prefix)

\* tokens[:length] for length from length down to min_len, in that order
\* (the inner loop of the first pass).
RECURSIVE prefixes_down(_, _, _)
prefixes_down(tokens, length, min_len) ==
    IF length < min_len THEN <<>>
    ELSE <<Slice(tokens, 0, length)>> \o prefixes_down(tokens, length - 1, min_len)

\* keys with the elements of ps that are new to it appended, in order.
RECURSIVE add_keys(_, _)
add_keys(keys, ps) ==
    IF ps = <<>> THEN keys
    ELSE add_keys(IF Head(ps) \in {keys[i] : i \in 1..Len(keys)}
                  THEN keys ELSE Append(keys, Head(ps)), Tail(ps))

\* The keys of analysis_trie in insertion order, after the sequences from
\* index idx (0-based) on are processed.
RECURSIVE analysis_trie_keys(_, _, _, _)
analysis_trie_keys(c, token_sequences, idx, keys) ==
    IF idx >= Len(token_sequences) THEN keys
    ELSE LET tokens == token_sequences[idx + 1]
         IN analysis_trie_keys(c, token_sequences, idx + 1,
                add_keys(keys, prefixes_down(tokens, Len(tokens), c.min_prefix_length)))

\* analysis_trie[prefix]: the indices, ascending from idx, of the sequences
\* that appended themselves under prefix.
RECURSIVE analysis_trie_indices(_, _, _, _)
analysis_trie_indices(c, token_sequences, prefix, idx) ==
    IF idx >= Len(token_sequences) THEN <<>>
    ELSE LET tokens == token_sequences[idx + 1]
             here == /\ Len(prefix) >= c.min_prefix_length
                     /\ Len(prefix) <= Len(tokens)
                     /\ Slice(tokens, 0, Len(prefix)) = prefix
         IN (IF here THEN <<idx>> ELSE <<>>)
            \o analysis_trie_indices(c, token_sequences, prefix, idx + 1)

\* The elements of keys of length len, in order.
RECURSIVE keys_of_length(_, _)
keys_of_length(keys, len) ==
    IF keys = <<>> THEN <<>>
    ELSE (IF Len(Head(keys)) = len THEN <<Head(keys)>> ELSE <<>>)
         \o keys_of_length(Tail(keys), len)

\* sorted(keys, key=len, reverse=True): a stable sort, longest first, for
\* keys no longer than len.
RECURSIVE sorted_prefixes(_, _)
sorted_prefixes(keys, len) ==
    IF len < 0 THEN <<>>
    ELSE keys_of_length(keys, len) \o sorted_prefixes(keys, len - 1)

\* [i for i in indices if i not in assigned]
RECURSIVE unassigned_of(_, _)
unassigned_of(indices, assigned) ==
    IF indices = <<>> THEN <<>>
    ELSE (IF Head(indices) \in DOMAIN assigned THEN <<>> ELSE <<Head(indices)>>)
         \o unassigned_of(Tail(indices), assigned)

\* The second pass without the filter on indices already assigned.
RECURSIVE group_walk_reassigns(_, _, _, _, _)
group_walk_reassigns(c, token_sequences, prefixes, shared_groups, assigned) ==
    IF prefixes = <<>>
    THEN [shared_groups |-> shared_groups, assigned |-> assigned]
    ELSE
    LET prefix == Head(prefixes)
        indices == analysis_trie_indices(c, token_sequences, prefix, 0)
    IN IF Len(indices) < 2
       THEN group_walk_reassigns(c, token_sequences, Tail(prefixes),
                                 shared_groups, assigned)
       ELSE group_walk_reassigns(c, token_sequences, Tail(prefixes),
                (prefix_key(prefix) :> indices) @@ shared_groups,
                [i \in {indices[j] : j \in 1..Len(indices)} |-> Len(prefix)]
                    @@ assigned)

\* The second pass: shared_groups and assigned after the prefixes left.
RECURSIVE group_walk(_, _, _, _, _)
group_walk(c, token_sequences, prefixes, shared_groups, assigned) ==
    IF prefixes = <<>>
    THEN [shared_groups |-> shared_groups, assigned |-> assigned]
    ELSE
    LET prefix == Head(prefixes)
        indices == analysis_trie_indices(c, token_sequences, prefix, 0)
        unassigned == unassigned_of(indices, assigned)
    IN IF Len(indices) < 2 \/ Len(unassigned) < 2
       THEN group_walk(c, token_sequences, Tail(prefixes), shared_groups, assigned)
       ELSE group_walk(c, token_sequences, Tail(prefixes),
                (prefix_key(prefix) :> unassigned) @@ shared_groups,
                [i \in {unassigned[j] : j \in 1..Len(unassigned)} |-> Len(prefix)]
                    @@ assigned)

\* assigned.get(i, 0)
assigned_get(assigned, i) == IF i \in DOMAIN assigned THEN assigned[i] ELSE 0

\* sum(assigned.get(i, 0) for i in range(n))
RECURSIVE sum_assigned(_, _)
sum_assigned(assigned, n) ==
    IF n = 0 THEN 0
    ELSE assigned_get(assigned, n - 1) + sum_assigned(assigned, n - 1)

\* max(assigned.get(i, 0) for i in group_indices), group_indices non-empty
max_assigned(assigned, group_indices) ==
    LET vals == {assigned_get(assigned, group_indices[j]) : j \in 1..Len(group_indices)}
    IN CHOOSE v \in vals : \A w \in vals : w <= v

\* The sum, over the groups with keys in ks, of max_savings_in_group.
RECURSIVE sum_group_max(_, _, _)
sum_group_max(shared_groups, assigned, ks) ==
    IF ks = {} THEN 0
    ELSE LET k == CHOOSE x \in ks : TRUE
         IN (IF shared_groups[k] # <<>>
             THEN max_assigned(assigned, shared_groups[k]) ELSE 0)
            + sum_group_max(shared_groups, assigned, ks \ {k})

\* sum(len(t) for t in token_sequences)
RECURSIVE sum_lengths(_)
sum_lengths(token_sequences) ==
    IF token_sequences = <<>> THEN 0
    ELSE Len(Head(token_sequences)) + sum_lengths(Tail(token_sequences))

\* The longest sequence length in the batch (0 for the empty batch).
RECURSIVE longest_length(_)
longest_length(token_sequences) ==
    IF token_sequences = <<>> THEN 0
    ELSE LET rest == longest_length(Tail(token_sequences))
         IN IF Len(Head(token_sequences)) > rest
            THEN Len(Head(token_sequences)) ELSE rest

\* analyze_batch without the subtraction of one copy per group.
analyze_batch_without_subtraction(c, token_sequences) ==
    IF token_sequences = <<>> THEN BatchAnalysis(0, 0, <<>>, 0, 0)
    ELSE
    LET keys == analysis_trie_keys(c, token_sequences, 0, <<>>)
        walked == group_walk(c, token_sequences,
                             sorted_prefixes(keys, longest_length(token_sequences)),
                             <<>>, <<>>)
        savings == sum_assigned(walked.assigned, Len(token_sequences))
    IN BatchAnalysis(Len(token_sequences),
                     Cardinality(DOMAIN walked.shared_groups),
                     walked.shared_groups,
                     IF savings > 0 THEN savings ELSE 0,
                     sum_lengths(token_sequences))

\* CacheManager.analyze_batch: the BatchAnalysis it returns. It reads
\* self.config only and writes no field of the manager.
analyze_batch(c, token_sequences) ==
    IF token_sequences = <<>> THEN BatchAnalysis(0, 0, <<>>, 0, 0)
    ELSE
    LET keys == analysis_trie_keys(c, token_sequences, 0, <<>>)
        walked == group_walk(c, token_sequences,
                             sorted_prefixes(keys, longest_length(token_sequences)),
                             <<>>, <<>>)
        savings == sum_assigned(walked.assigned, Len(token_sequences))
                   - sum_group_max(walked.shared_groups, walked.assigned,
                                   DOMAIN walked.shared_groups)
    IN BatchAnalysis(Len(token_sequences),
                     Cardinality(DOMAIN walked.shared_groups),
                     walked.shared_groups,
                     IF savings > 0 THEN savings ELSE 0,
                     sum_lengths(token_sequences))

\* ------------------------------------------------------------ state
VARIABLES
    pc,                  \* "config" | "error" | "manager" | "ready"
    config,              \* the CacheConfig record being built, then in use
    config_error,        \* what CacheConfig.__post_init__ raised, or "ok"
    trie,                \* CacheManager._trie
    entries,             \* CacheManager._entries, least recently used first
    total_memory_bytes,  \* CacheManager._total_memory_bytes
    stats,               \* CacheManager._stats (the accumulated counters)
    now,                 \* time.time()
    last,                \* the last call on the manager and what it returned
    touched,             \* history: the live keys, least recently touched first
    ops,                 \* history: the number of calls made so far
    analysis,            \* the BatchAnalysis analyze_batch returned last
    stored,              \* history: what a RadixTrie driven directly holds
    returned,            \* the record the stats property returned last
    running,             \* the call in progress, when calls run by statements
    token_sequences      \* the batch given to analyze_batch

vars == <<pc, config, config_error, trie, entries, total_memory_bytes, stats,
          now, last, touched, ops, analysis, stored, returned, running,
                   token_sequences>>

M == Manager(trie, entries, total_memory_bytes, stats)

SetManager(m) ==
    /\ trie' = m.trie
    /\ entries' = m.entries
    /\ total_memory_bytes' = m.total_memory_bytes
    /\ stats' = m.stats

\* The record of a call: op, its tokens argument, its results (key: the key
\* store returned or evict was given; match: what lookup returned; ok: what
\* evict returned), whether it raised CacheFullError, the keys it evicted,
\* and, for a lookup, the key the call right before it returned when that
\* call was a store of the same tokens ("" otherwise).
Call(op, tokens, key, match, ok, raised, evicted, after_store) ==
    [op |-> op, tokens |-> tokens, key |-> key,
     match |-> match, ok |-> ok, raised |-> raised, evicted |-> evicted,
     after_store |-> after_store]

NoCall == Call("none", <<>>, "", MissMatch(0), FALSE, FALSE, <<>>, "")

\* s without the elements that fail to be in keep.
RECURSIVE Restrict(_, _)
Restrict(s, keep) ==
    IF s = <<>> THEN <<>>
    ELSE IF Head(s) \in keep THEN <<Head(s)>> \o Restrict(Tail(s), keep)
    ELSE Restrict(Tail(s), keep)

\* touched after a call that touched key (admitted it, stored it again or
\* hit it; "" for none) and left the keys in live in the map.
Touched(live, key) ==
    IF key \in live
    THEN Append(Restrict(touched, live \ {key}), key)
    ELSE Restrict(touched, live)

\* The configurations the manager is run under.
Configs ==
    {CacheConfig(2, Mb(1, 256), 0, "lru", 1),
     CacheConfig(2, Mb(1, 1), 0, "lfu", 2),
     CacheConfig(2, Mb(1, 1), 1, "lru", 1)}

\* The byte footprints a caller of store supplies: 0 (estimate it) or a
\* positive value, larger than the smallest budget of Configs.
MemoryBytesInputs == {0, 5000}

\* The artifact that comes with a footprint: store(tokens) passes neither
\* (kv_data=None, memory_bytes=0), store(tokens, kv, n) passes both.
KvDataFor(memory_bytes) == IF memory_bytes = 0 THEN None ELSE "kv"

\* The keys a caller of evict supplies: a key store returned and that is
\* still live, or one that is not in the map.
EvictKeys == Keys(entries) \cup {"nonexistent"}

\* CacheManager(config) right after construction, for a valid config.
Init ==
    /\ pc = "ready"
    /\ config \in Configs
    /\ config_error = CacheConfig_post_init(config)
    /\ config_error = "ok"
    /\ trie = NewManager.trie
    /\ entries = NewManager.entries
    /\ total_memory_bytes = NewManager.total_memory_bytes
    /\ stats = NewManager.stats
    /\ now = 1
    /\ last = NoCall
    /\ touched = <<>>
    /\ ops = 0
    /\ analysis = None
    /\ stored = None
    /\ returned = None
    /\ running = None
    /\ token_sequences = <<>>

\* One more call is made.
Step ==
    /\ ops < MaxOps
    /\ ops' = ops + 1
    /\ UNCHANGED <<pc, config, config_error>>

\* cache.store(tokens, memory_bytes=memory_bytes)
Store ==
    \E tokens \in TokenSeqs, memory_bytes \in MemoryBytesInputs :
        LET r == store(config, M, tokens, KvDataFor(memory_bytes), memory_bytes, now) IN
        /\ pc = "ready"
        /\ Step
        /\ SetManager(r.m)
        /\ last' = Call("store", tokens, r.key, MissMatch(0),
                        FALSE, r.raised, r.evicted, "")
        /\ touched' = Touched(Keys(r.m.entries), r.key)
        /\ UNCHANGED <<now, analysis, stored, returned, running,
                   token_sequences>>

\* cache.lookup(tokens)
Lookup ==
    \E tokens \in TokenSeqs :
        LET r == lookup(config, M, tokens, now) IN
        /\ pc = "ready"
        /\ Step
        /\ SetManager(r.m)
        /\ last' = Call("lookup", tokens, "", r.match, FALSE, FALSE, r.evicted,
                        IF last.op = "store" /\ last.tokens = tokens
                        THEN last.key ELSE "")
        /\ touched' = Touched(Keys(r.m.entries), r.match.cache_key)
        /\ UNCHANGED <<now, analysis, stored, returned, running,
                   token_sequences>>

\* cache.evict(cache_key)
Evict ==
    \E cache_key \in EvictKeys :
        LET r == evict_entry(M, cache_key) IN
        /\ pc = "ready"
        /\ Step
        /\ SetManager(r.m)
        /\ last' = Call("evict", <<>>, cache_key, MissMatch(0), r.ret, FALSE,
                        IF r.ret THEN <<cache_key>> ELSE <<>>, "")
        /\ touched' = Touched(Keys(r.m.entries), "")
        /\ UNCHANGED <<now, analysis, stored, returned, running,
                   token_sequences>>

\* cache.clear()
Clear ==
    /\ pc = "ready"
    /\ Step
    /\ SetManager(clear(M))
    /\ last' = Call("clear", <<>>, "", MissMatch(0), FALSE, FALSE, <<>>, "")
    /\ touched' = Touched({}, "")
    /\ UNCHANGED <<now, analysis, stored, returned, running,
                   token_sequences>>

\* Time passes between two calls: the clock moves forward.
Tick ==
    /\ pc = "ready"
    /\ Step
    /\ \E d \in 1..(MaxTime - now) : now' = now + d
    /\ last' = Call("tick", <<>>, "", MissMatch(0), FALSE, FALSE, <<>>, "")
    /\ UNCHANGED <<trie, entries, total_memory_bytes, stats, touched, analysis,
                   stored, returned, running,
                   token_sequences>>

Next == Store \/ Lookup \/ Evict \/ Clear \/ Tick

Spec == Init /\ [][Next]_vars

\* ------------------------------------------------------------ construction
\* The values a caller may pass for each field of CacheConfig.
CandidateConfigs ==
    {CacheConfig(e, mb, ttl, p, n) :
        e \in {-1, 0, 1, 2},
        mb \in {Mb(-1, 1), Mb(0, 1), Mb(1, 256), Mb(1, 1)},
        ttl \in {-1, 0, 1},
        p \in {"lru", "lfu", "fifo"},
        n \in {-1, 0, 1, 2}}

\* Before CacheConfig(...) is evaluated: no configuration and no manager yet.
InitConfig ==
    /\ pc = "config"
    /\ config \in CandidateConfigs
    /\ config_error = "none"
    /\ trie = None
    /\ entries = None
    /\ total_memory_bytes = None
    /\ stats = None
    /\ now = 1
    /\ last = NoCall
    /\ touched = <<>>
    /\ ops = 0
    /\ analysis = None
    /\ stored = None
    /\ returned = None
    /\ running = None
    /\ token_sequences = <<>>

\* CacheConfig(...): __post_init__ raises ValueError or the record is built.
NewConfig ==
    /\ pc = "config"
    /\ config_error' = CacheConfig_post_init(config)
    /\ pc' = IF config_error' = "ok" THEN "manager" ELSE "error"
    /\ UNCHANGED <<config, trie, entries, total_memory_bytes, stats, now, last,
                   touched, ops, analysis, stored, returned, running,
                   token_sequences>>

\* CacheManager(config=config), given the configuration was built.
NewCacheManager ==
    /\ pc = "manager"
    /\ pc' = "ready"
    /\ SetManager(NewManager)
    /\ UNCHANGED <<config, config_error, now, last, touched, ops, analysis,
                   stored, returned, running,
                   token_sequences>>

NextConfig == NewConfig \/ NewCacheManager

SpecConfig == InitConfig /\ [][NextConfig]_vars

\* ------------------------------------------------------------ any footprint
\* memory_bytes is a plain int: a caller may also pass a negative value.
AnyMemoryBytesInputs == MemoryBytesInputs \cup {-1}

\* cache.store(tokens, kv_data, memory_bytes) with any int as memory_bytes
StoreAnyFootprint ==
    \E tokens \in TokenSeqs, memory_bytes \in AnyMemoryBytesInputs :
        LET r == store(config, M, tokens, KvDataFor(memory_bytes), memory_bytes, now) IN
        /\ pc = "ready"
        /\ Step
        /\ SetManager(r.m)
        /\ last' = Call("store", tokens, r.key, MissMatch(0),
                        FALSE, r.raised, r.evicted, "")
        /\ touched' = Touched(Keys(r.m.entries), r.key)
        /\ UNCHANGED <<now, analysis, stored, returned, running,
                   token_sequences>>

NextFootprint == StoreAnyFootprint \/ Lookup \/ Evict \/ Clear

SpecFootprint == Init /\ [][NextFootprint]_vars

\* ------------------------------------------------------------ batches
\* The batches a caller of analyze_batch passes: none, two sequences with a
\* common first token, three with a repeated sequence.
Batches ==
    {<<>>,
     <<<<1, 1>>, <<1, 2>>>>,
     <<<<1, 2>>, <<1, 2>>, <<2, 1>>>>}

\* analyze_batch building its temporary trie in the store's own index.
AnalyzeBatch_indexing ==
    \E batch \in Batches :
        /\ pc = "ready"
        /\ Step
        /\ token_sequences' = batch
        /\ analysis' = analyze_batch(config, batch)
        /\ trie' = IF batch = <<>> THEN trie
                   ELSE insert(trie, batch[1], compute_cache_key(batch[1]))
        /\ last' = Call("analyze_batch", <<>>, "", MissMatch(0), FALSE, FALSE, <<>>, "")
        /\ UNCHANGED <<entries, total_memory_bytes, stats, touched, now,
                       stored, returned, running>>

\* cache.analyze_batch(token_sequences)
AnalyzeBatch ==
    \E batch \in Batches :
        /\ pc = "ready"
        /\ Step
        /\ token_sequences' = batch
        /\ analysis' = analyze_batch(config, batch)
        /\ last' = Call("analyze_batch", <<>>, "", MissMatch(0), FALSE, FALSE, <<>>, "")
        /\ UNCHANGED <<trie, entries, total_memory_bytes, stats, touched, now,
                       stored, returned, running>>

NextBatch == Store \/ Lookup \/ Evict \/ Clear \/ Tick \/ AnalyzeBatch

SpecBatch == Init /\ [][NextBatch]_vars

\* ------------------------------------------------------------ the trie alone
\* The sequences and keys a caller of RadixTrie passes: keys are any
\* strings, and nothing ties a key to one sequence.
TrieSeqs == SeqsUpTo(MaxLen + 1)

TrieKeys == {"k1", "k2"}

\* stored without the binding of tokens.
Unbind(tokens) == [t \in (DOMAIN stored) \ {tokens} |-> stored[t]]

\* RadixTrie() right after construction.
InitTrie ==
    /\ pc = "trie"
    /\ trie = RadixTrie
    /\ stored = <<>>
    /\ last = NoCall
    /\ ops = 0
    /\ now = 1
    /\ touched = <<>>
    /\ config = None
    /\ config_error = None
    /\ entries = None
    /\ total_memory_bytes = None
    /\ stats = None
    /\ analysis = None
    /\ returned = None
    /\ running = None
    /\ token_sequences = <<>>

\* trie.insert(tokens, cache_key)
TrieInsert ==
    \E tokens \in TrieSeqs, cache_key \in TrieKeys :
        /\ pc = "trie"
        /\ Step
        /\ trie' = insert(trie, tokens, cache_key)
        /\ stored' = IF tokens = <<>> THEN stored
                      ELSE (tokens :> cache_key) @@ Unbind(tokens)
        /\ last' = Call("insert", tokens, cache_key, MissMatch(0), FALSE, FALSE, <<>>, "")
        /\ UNCHANGED <<entries, total_memory_bytes, stats, now, touched, analysis,
                       returned, running,
                   token_sequences>>

\* trie.remove(tokens)
TrieRemove ==
    \E tokens \in TrieSeqs :
        LET r == remove(trie, tokens) IN
        /\ pc = "trie"
        /\ Step
        /\ trie' = r.trie
        /\ stored' = Unbind(tokens)
        /\ last' = Call("remove", tokens, "", MissMatch(0), r.removed, FALSE, <<>>, "")
        /\ UNCHANGED <<entries, total_memory_bytes, stats, now, touched, analysis,
                       returned, running,
                   token_sequences>>

NextTrie == TrieInsert \/ TrieRemove

SpecTrie == InitTrie /\ [][NextTrie]_vars

\* ------------------------------------------------------------ analyze_batch alone
\* The longest batch given to analyze_batch.
MaxBatch == 4

\* The batches a caller may pass: up to MaxBatch sequences, each of up to
\* MaxLen + 1 tokens, the empty sequence and repeated sequences included.
BatchInputs == UNION {[1..n -> SeqsUpTo(MaxLen + 1)] : n \in 0..MaxBatch}

\* The configurations that differ in what analyze_batch reads:
\* min_prefix_length 1 and 2.
BatchConfigs == {c \in Configs : c.default_ttl_seconds = 0}

\* A manager right after construction and a batch at hand.
InitAnalyze ==
    /\ pc = "ready"
    /\ config \in BatchConfigs
    /\ config_error = "ok"
    /\ trie = NewManager.trie
    /\ entries = NewManager.entries
    /\ total_memory_bytes = NewManager.total_memory_bytes
    /\ stats = NewManager.stats
    /\ now = 1
    /\ last = NoCall
    /\ touched = <<>>
    /\ ops = 0
    /\ analysis = None
    /\ stored = None
    /\ returned = None
    /\ running = None
    /\ token_sequences \in BatchInputs

\* cache.analyze_batch(token_sequences) on the batch at hand.
Analyze ==
    /\ pc = "ready"
    /\ ops = 0
    /\ Step
    /\ analysis' = analyze_batch(config, token_sequences)
    /\ last' = Call("analyze_batch", <<>>, "", MissMatch(0), FALSE, FALSE, <<>>, "")
    /\ UNCHANGED <<trie, entries, total_memory_bytes, stats, touched, now,
                   stored, returned, running, token_sequences>>

NextAnalyze == Analyze

SpecAnalyze == InitAnalyze /\ [][NextAnalyze]_vars

\* ------------------------------------------------------------ store and evict by statements
\* store and evict run one statement at a time. The code takes no lock, so
\* a second thread may run between any two statements; what it then finds
\* is the state between them.
\* The call in progress: op ("idle" when none), the statement at, the
\* locals of store (tokens, cache_key, entry), of _ensure_capacity
\* (eviction_attempts, max_attempts) and of _evict_entry (victim_key, then
\* the popped entry victim), and the manager as the call found it.
Running(op, at, tokens, cache_key, entry, eviction_attempts, max_attempts, victim_key, victim, before) ==
    [op |-> op, at |-> at, tokens |-> tokens, cache_key |-> cache_key,
     entry |-> entry, eviction_attempts |-> eviction_attempts,
     max_attempts |-> max_attempts, victim_key |-> victim_key,
     victim |-> victim, before |-> before]

\* A local not yet bound to an entry.
NoEntry == CacheEntry("", <<>>, None, 0, 0)

Idle == Running("idle", "idle", <<>>, "", NoEntry, 0, 0, "", NoEntry, NewManager)

InitSteps ==
    /\ pc = "ready"
    /\ config \in Configs
    /\ config_error = "ok"
    /\ trie = NewManager.trie
    /\ entries = NewManager.entries
    /\ total_memory_bytes = NewManager.total_memory_bytes
    /\ stats = NewManager.stats
    /\ now = 1
    /\ last = NoCall
    /\ touched = <<>>
    /\ ops = 0
    /\ analysis = None
    /\ stored = None
    /\ returned = None
    /\ running = Idle
    /\ token_sequences = <<>>

\* store up to the call of _ensure_capacity: the length check, the key, the
\* duplicate branch, the new CacheEntry.
StoreCall ==
    \E tokens \in TokenSeqs, memory_bytes \in MemoryBytesInputs :
        LET cache_key == compute_cache_key(tokens)
            entry == CacheEntry(cache_key, tokens, KvDataFor(memory_bytes),
                                IF memory_bytes # 0 THEN memory_bytes
                                ELSE Len(tokens) * BYTES_PER_TOKEN_DEFAULT, now)
        IN
        /\ pc = "ready"
        /\ running.at = "idle"
        /\ Step
        /\ IF Len(tokens) < config.min_prefix_length
           THEN /\ running' = Idle
                /\ last' = Call("store", tokens, "", MissMatch(0), FALSE, FALSE, <<>>, "")
                /\ UNCHANGED entries
           ELSE IF cache_key \in Keys(entries)
           THEN /\ entries' = touch(entries, cache_key, now)
                /\ running' = Idle
                /\ last' = Call("store", tokens, cache_key, MissMatch(0),
                                FALSE, FALSE, <<>>, "")
           ELSE /\ running' = Running("store", "ensure", tokens, cache_key, entry,
                                      0, Len(entries) + 1, "", NoEntry, M)
                /\ last' = Call("store", tokens, "", MissMatch(0), FALSE, FALSE, <<>>, "")
                /\ UNCHANGED entries
        /\ UNCHANGED <<trie, total_memory_bytes, stats, now, touched, analysis,
                       stored, returned, token_sequences>>

\* The while test of _ensure_capacity, the attempt count and _evict_one up
\* to its call of _evict_entry.
EnsureTest ==
    /\ running.at = "ensure"
    /\ IF ~over_capacity(config, M, running.entry.memory_bytes)
       THEN /\ running' = [running EXCEPT !.at = "map"]
            /\ UNCHANGED last
       ELSE IF running.eviction_attempts + 1 > running.max_attempts
       THEN /\ running' = Idle
            /\ last' = [last EXCEPT !.raised = TRUE]
       ELSE /\ running' = [running EXCEPT
                              !.at = "pop",
                              !.eviction_attempts = @ + 1,
                              !.victim_key = evict_one_key(config, entries)]
            /\ UNCHANGED last
    /\ UNCHANGED <<pc, config, config_error, trie, entries, total_memory_bytes,
                   stats, now, touched, ops, analysis, stored, returned,
                   token_sequences>>

\* evict(cache_key) up to its call of _evict_entry.
EvictCall ==
    \E cache_key \in EvictKeys :
        /\ pc = "ready"
        /\ running.at = "idle"
        /\ Step
        /\ running' = Running("evict", "pop", <<>>, "", NoEntry, 0, 0,
                              cache_key, NoEntry, M)
        /\ last' = Call("evict", <<>>, cache_key, MissMatch(0), FALSE, FALSE, <<>>, "")
        /\ UNCHANGED <<trie, entries, total_memory_bytes, stats, now, touched,
                       analysis, stored, returned, token_sequences>>

\* _evict_entry reading the entry with get instead of pop: it stays in the map.
EvictPop_keeps_entry ==
    /\ running.at = "pop"
    /\ IF running.victim_key \notin Keys(entries)
       THEN running' = Idle
       ELSE running' = [running EXCEPT
                           !.at = "remove",
                           !.victim = entries[IndexOf(entries, running.victim_key)]]
    /\ UNCHANGED <<pc, config, config_error, trie, entries, total_memory_bytes,
                   stats, now, last, touched, ops, analysis, stored, returned,
                   token_sequences>>

\* _evict_entry: entry = self._entries.pop(cache_key, None), and the return
\* of False when there was none.
EvictPop ==
    /\ running.at = "pop"
    /\ IF running.victim_key \notin Keys(entries)
       THEN /\ running' = Idle
            /\ UNCHANGED entries
       ELSE LET i == IndexOf(entries, running.victim_key)
            IN /\ entries' = RemoveAt(entries, i)
               /\ running' = [running EXCEPT !.at = "remove", !.victim = entries[i]]
    /\ UNCHANGED <<pc, config, config_error, trie, total_memory_bytes, stats,
                   now, last, touched, ops, analysis, stored, returned,
                   token_sequences>>

\* _evict_entry: self._trie.remove(entry.tokens)
EvictRemove ==
    /\ running.at = "remove"
    /\ trie' = remove(trie, running.victim.tokens).trie
    /\ running' = [running EXCEPT !.at = "bytes"]
    /\ UNCHANGED <<pc, config, config_error, entries, total_memory_bytes, stats,
                   now, last, touched, ops, analysis, stored, returned,
                   token_sequences>>

\* _evict_entry: self._total_memory_bytes -= entry.memory_bytes
EvictBytes ==
    /\ running.at = "bytes"
    /\ total_memory_bytes' = total_memory_bytes - running.victim.memory_bytes
    /\ running' = [running EXCEPT !.at = "count"]
    /\ UNCHANGED <<pc, config, config_error, trie, entries, stats,
                   now, last, touched, ops, analysis, stored, returned,
                   token_sequences>>

\* _evict_entry: self._stats.evictions += 1 and the return of True, to
\* evict's caller or to the loop of _ensure_capacity.
EvictCount ==
    /\ running.at = "count"
    /\ stats' = [stats EXCEPT !.evictions = @ + 1]
    /\ IF running.op = "evict"
       THEN /\ running' = Idle
            /\ last' = [last EXCEPT !.ok = TRUE, !.evicted = <<running.victim_key>>]
       ELSE /\ running' = [running EXCEPT !.at = "ensure"]
            /\ last' = [last EXCEPT !.evicted = Append(@, running.victim_key)]
    /\ UNCHANGED <<pc, config, config_error, trie, entries, total_memory_bytes,
                   now, touched, ops, analysis, stored, returned,
                   token_sequences>>

\* store: self._entries[cache_key] = entry
StoreMap ==
    /\ running.at = "map"
    /\ entries' = Append(entries, running.entry)
    /\ running' = [running EXCEPT !.at = "index"]
    /\ UNCHANGED <<pc, config, config_error, trie, total_memory_bytes, stats,
                   now, last, touched, ops, analysis, stored, returned,
                   token_sequences>>

\* store going on to the byte total without the insert into the index.
StoreIndex_skipped ==
    /\ running.at = "index"
    /\ running' = [running EXCEPT !.at = "total"]
    /\ UNCHANGED <<pc, config, config_error, trie, entries, total_memory_bytes,
                   stats, now, last, touched, ops, analysis, stored, returned,
                   token_sequences>>

\* store: self._trie.insert(tokens, cache_key)
StoreIndex ==
    /\ running.at = "index"
    /\ trie' = insert(trie, running.tokens, running.cache_key)
    /\ running' = [running EXCEPT !.at = "total"]
    /\ UNCHANGED <<pc, config, config_error, entries, total_memory_bytes, stats,
                   now, last, touched, ops, analysis, stored, returned,
                   token_sequences>>

\* store: self._total_memory_bytes += entry.memory_bytes, and the return of
\* the key.
StoreTotal ==
    /\ running.at = "total"
    /\ total_memory_bytes' = total_memory_bytes + running.entry.memory_bytes
    /\ running' = Idle
    /\ last' = [last EXCEPT !.key = running.cache_key]
    /\ UNCHANGED <<pc, config, config_error, trie, entries, stats,
                   now, touched, ops, analysis, stored, returned,
                   token_sequences>>

NextSteps ==
    \/ StoreCall
    \/ EnsureTest
    \/ EvictCall
    \/ EvictPop
    \/ EvictRemove
    \/ EvictBytes
    \/ EvictCount
    \/ StoreMap
    \/ StoreIndex
    \/ StoreTotal

SpecSteps == InitSteps /\ [][NextSteps]_vars

\* The statements of a call in progress. A call runs in the caller's thread
\* without blocking or waiting, so a call that has a next statement takes it.
CallSteps ==
    \/ EnsureTest
    \/ EvictPop
    \/ EvictRemove
    \/ EvictBytes
    \/ EvictCount
    \/ StoreMap
    \/ StoreIndex
    \/ StoreTotal

SpecStepsLive == InitSteps /\ [][NextSteps]_vars /\ WF_vars(CallSteps)

\* ------------------------------------------------------------ the stats property
\* What a caller of stats holds: ref, the object the property returned
\* (self._stats itself: the property builds no new record), and seen, the
\* field values the caller read from it at the return.
StatsRecord(ref, seen) == [ref |-> ref, seen |-> seen]

InitStats ==
    /\ pc = "ready"
    /\ config \in Configs
    /\ config_error = "ok"
    /\ trie = NewManager.trie
    /\ entries = NewManager.entries
    /\ total_memory_bytes = NewManager.total_memory_bytes
    /\ stats = NewManager.stats
    /\ now = 1
    /\ last = NoCall
    /\ touched = <<>>
    /\ ops = 0
    /\ analysis = None
    /\ stored = None
    /\ returned = StatsRecord(None, stats_of(NewManager))
    /\ running = None
    /\ token_sequences = <<>>

\* s = cache.stats
Stats ==
    /\ pc = "ready"
    /\ Step
    /\ returned' = StatsRecord("self._stats", stats_of(M))
    /\ last' = Call("stats", <<>>, "", MissMatch(0), FALSE, FALSE, <<>>, "")
    /\ UNCHANGED <<trie, entries, total_memory_bytes, stats, touched, now,
                   analysis, stored, running, token_sequences>>

\* The fields of the object a caller holds, read now: the counters live in
\* self._stats, which lookups and evictions keep updating; entries_count
\* and memory_used_mb are as the last call of stats wrote them.
read_fields(r) ==
    [total_lookups |-> stats.total_lookups,
     cache_hits |-> stats.cache_hits,
     cache_misses |-> stats.cache_misses,
     total_tokens_served |-> stats.total_tokens_served,
     total_tokens_requested |-> stats.total_tokens_requested,
     evictions |-> stats.evictions,
     entries_count |-> r.seen.entries_count,
     memory_used_mb |-> r.seen.memory_used_mb]

NextStats == Store \/ Lookup \/ Evict \/ Clear \/ Stats

SpecStats == InitStats /\ [][NextStats]_vars

\* ------------------------------------------------------------ claims
Range(f) == {f[i] : i \in DOMAIN f}

RECURSIVE SumBytes(_)
SumBytes(es) ==
    IF es = <<>> THEN 0 ELSE Head(es).memory_bytes + SumBytes(Tail(es))

\* The entries of the map whose tokens are a prefix of q.
PrefixEntries(es, q) == {e \in Range(es) : IsPrefix(e.tokens, q)}

\* The longest of them (there is one when the set is non-empty).
LongestPrefixEntry(es, q) ==
    CHOOSE e \in PrefixEntries(es, q) :
        \A f \in PrefixEntries(es, q) : Len(f.tokens) <= Len(e.tokens)

TtlDisabled == config.default_ttl_seconds <= 0

\* C1: after any sequence of store, lookup, evict and clear, the map and the
\* index agree: the index enumerates exactly one (tokens, key) pair per map
\* entry, each marker being its entry's key, and
\* len(map) = RadixTrie.size = stats.entries_count.
C1_MapIndexSynchrony ==
    LET idx == get_all_entries(trie) IN
    /\ Range(idx) = {<<e.tokens, e.cache_key>> : e \in Range(entries)}
    /\ Len(idx) = Len(entries)
    /\ \A e \in Range(entries) : e.cache_key = compute_cache_key(e.tokens)
    /\ Len(entries) = trie.size
    /\ trie.size = stats_of(M).entries_count

\* A store that evicted an entry and left two entries, one a prefix of the other.
C1_Witness ==
    /\ last.op = "store"
    /\ last.evicted # <<>>
    /\ Len(entries) = 2
    /\ IsPrefix(entries[1].tokens, entries[2].tokens)

\* C2: after any store call that returns, the map holds at most max_entries
\* entries and the byte total is at most max_memory_mb * 2^20.
C2_CapacityBounds ==
    (last.op = "store" /\ ~last.raised) =>
        /\ Len(entries) <= config.max_entries
        /\ total_memory_bytes * config.max_memory_mb.den
               <= config.max_memory_mb.num * 1024 * 1024

\* What lookup(q) must return with TTL disabled, read off the map alone.
MapLookup(es, q) ==
    IF PrefixEntries(es, q) = {} THEN MissMatch(Len(q))
    ELSE LET e == LongestPrefixEntry(es, q)
         IN PrefixMatch(e.tokens, Len(e.tokens), Len(q), e.cache_key,
                        Slice(q, Len(e.tokens), Len(q)), TRUE)

\* C3: with TTL disabled, in every reachable state lookup(q) is a hit exactly
\* when some entry of the map has tokens that are a prefix of q, with the
\* largest such length as matched_length and that entry's key as cache_key;
\* this holds for every query and for the lookup that was just made.
C3_LookupIsLongestLivePrefix ==
    TtlDisabled =>
        /\ \A q \in TokenSeqs :
               LET r == lookup(config, M, q, now).match
                   want == MapLookup(entries, q)
               IN /\ r.hit = want.hit
                  /\ r.matched_length = want.matched_length
                  /\ r.cache_key = want.cache_key
        /\ last.op = "lookup" =>
               LET want == MapLookup(entries, last.tokens)
               IN /\ last.match.hit = want.hit
                  /\ last.match.matched_length = want.matched_length
                  /\ last.match.cache_key = want.cache_key

\* A lookup that hit a stored strict prefix of the query after an eviction.
C3_Witness ==
    /\ TtlDisabled
    /\ last.op = "lookup"
    /\ last.match.hit
    /\ last.match.matched_length < Len(last.tokens)
    /\ stats.evictions > 0

\* C4: in every reachable state the running byte total, and
\* stats.memory_used_mb * 2^20, equal the sum of the footprints of the
\* entries in the map.
C4_ByteAccounting ==
    LET mb == stats_of(M).memory_used_mb IN
    /\ total_memory_bytes = SumBytes(entries)
    /\ mb.num = SumBytes(entries)
    /\ mb.den = 1024 * 1024

\* A store into a non-empty map that evicted an entry for lack of bytes.
C4_Witness ==
    /\ last.op = "store"
    /\ last.evicted # <<>>
    /\ Len(entries) = 1
    /\ Len(entries) < config.max_entries
    /\ total_memory_bytes > 0

\* The entry is within its TTL window at time t (or TTL is disabled).
WithinTtl(e, t) ==
    \/ config.default_ttl_seconds <= 0
    \/ t <= e.created_at + config.default_ttl_seconds

EntryOf(es, k) == es[IndexOf(es, k)]

\* The lookup just made is the hit a store of the same tokens promises.
FullHit(call, k) ==
    /\ call.match.hit
    /\ call.match.matched_length = Len(call.tokens)
    /\ call.match.cache_key = k
    /\ call.match.remaining_tokens = <<>>

\* C5 as stated: whatever the configuration and the time elapsed since
\* earlier calls, when store(s) returns a non-empty key k, the lookup(s)
\* made right after it is a hit with matched_length = len(s), cache_key = k
\* and no remaining tokens.
C5_StoreThenLookupHits ==
    (last.op = "lookup" /\ last.after_store # "") => FullHit(last, last.after_store)

\* C5 as amended: when store(s) returns a non-empty key k and the entry of s
\* is no older than the TTL at that moment (or TTL is disabled), the
\* lookup(s) made right after it is that hit.
C5_StoreThenLookupHitsWithinTtl ==
    [][(/\ ops' = ops + 1
        /\ last.op = "store" /\ last.key # ""
        /\ last'.op = "lookup" /\ last'.tokens = last.tokens
        /\ last.key \in Keys(entries)
        /\ WithinTtl(EntryOf(entries, last.key), now))
       => FullHit(last', last.key)]_vars

\* A lookup right after a store of the same tokens, under a TTL and after
\* time has passed, that hit.
C5_Witness ==
    /\ config.default_ttl_seconds > 0
    /\ now > 1
    /\ last.op = "lookup"
    /\ last.after_store # ""
    /\ FullHit(last, last.after_store)

\* The key at position i of a sequence of keys.
PosIn(order, k) == CHOOSE i \in 1..Len(order) : order[i] = k

\* A store call was just made.
StoreStep == ops' = ops + 1 /\ last'.op = "store"

\* C6: under the lru policy, every eviction store makes removes the entry
\* whose most recent touch (admission, duplicate store or lookup hit) is the
\* oldest among the entries then live; with max_entries = 2 and a full map,
\* a store of a new sequence that evicts one entry evicts the least recently
\* touched and keeps the other one and the new one.
C6_LruEvictsLeastRecentlyTouched ==
    [][(StoreStep /\ config.eviction_policy = "lru") =>
        /\ \A i \in 1..Len(last'.evicted) : last'.evicted[i] = touched[i]
        /\ (/\ Len(entries) >= config.max_entries
            /\ last'.key \notin Keys(entries) \cup {""})
           => last'.evicted # <<>>
        /\ (Len(entries) = 2 /\ Len(last'.evicted) = 1)
           => Keys(entries') = {touched[2], last'.key}]_vars

\* Two stores, a hit on the first, and a third store that evicted the second.
C6_Witness ==
    /\ config.eviction_policy = "lru"
    /\ config.max_entries = 2
    /\ ops = 4
    /\ last.op = "store"
    /\ Len(last.evicted) = 1
    /\ stats.cache_hits = 1
    /\ Len(entries) = 2
    /\ entries[1].access_count = 1
    /\ entries[2].cache_key = last.key

\* k is a least frequently used key of es among the keys of order, and the
\* earliest of those in order.
IsLfuVictim(es, order, k) ==
    /\ k \in Range(order)
    /\ \A j \in Range(order) :
           /\ EntryOf(es, k).access_count <= EntryOf(es, j).access_count
           /\ EntryOf(es, j).access_count = EntryOf(es, k).access_count
              => PosIn(order, k) <= PosIn(order, j)

\* C7: under the lfu policy, every eviction store makes removes an entry
\* whose access_count is minimal among the entries then live, the least
\* recently touched one among those tied at the minimum.
C7_LfuEvictsLeastFrequentlyUsed ==
    [][(StoreStep /\ config.eviction_policy = "lfu") =>
        \A i \in 1..Len(last'.evicted) :
            IsLfuVictim(entries,
                        Restrict(touched, Keys(entries) \
                                 {last'.evicted[j] : j \in 1..(i - 1)}),
                        last'.evicted[i])]_vars

\* A then B stored, a hit on A, and a store of C that evicted B and kept A.
C7_Witness ==
    /\ config.eviction_policy = "lfu"
    /\ config.max_entries = 2
    /\ ops = 4
    /\ last.op = "store"
    /\ Len(last.evicted) = 1
    /\ stats.cache_hits = 1
    /\ Len(entries) = 2
    /\ entries[1].access_count = 1
    /\ entries[2].cache_key = last.key

\* C8: with default_ttl_seconds = T > 0, a lookup whose longest matching
\* entry was created at c is a miss that raises stats.evictions by one when
\* made at a time > c + T and a hit on that entry when made at a time
\* <= c + T; no call changes the created_at of an entry that stays in the map.
C8_TtlIsAgeSinceCreation ==
    [][(ops' = ops + 1 /\ config.default_ttl_seconds > 0) =>
        /\ \A e \in Range(entries), f \in Range(entries') :
               e.cache_key = f.cache_key => f.created_at = e.created_at
        /\ (last'.op = "lookup" /\ PrefixEntries(entries, last'.tokens) # {}) =>
               LET e == LongestPrefixEntry(entries, last'.tokens) IN
               IF now > e.created_at + config.default_ttl_seconds
               THEN /\ ~last'.match.hit
                    /\ stats'.evictions = stats.evictions + 1
               ELSE /\ last'.match.hit
                    /\ last'.match.cache_key = e.cache_key
                    /\ stats'.evictions = stats.evictions]_vars

\* A lookup that found its entry expired, after an earlier hit on that entry.
C8_Witness ==
    /\ config.default_ttl_seconds > 0
    /\ last.op = "lookup"
    /\ ~last.match.hit
    /\ last.evicted # <<>>
    /\ stats.cache_hits = 1
    /\ stats.evictions = 1

\* C9: a store of a new entry whose byte footprint exceeds the whole byte
\* budget max_memory_mb * 2^20 raises CacheFullError instead of admitting it.
C9_OversizedStoreRaises ==
    (last.op = "store" /\ last.key \in Keys(entries)) =>
        LET e == EntryOf(entries, last.key) IN
        (/\ e.access_count = 0
         /\ e.memory_bytes * config.max_memory_mb.den
                > config.max_memory_mb.num * 1024 * 1024)
        => last.raised

\* A configuration the field constraints rule out.
InvalidConfig(c) ==
    \/ c.max_entries < 1
    \/ c.max_memory_mb.num <= 0
    \/ c.default_ttl_seconds < 0
    \/ c.eviction_policy \notin {"lru", "lfu"}
    \/ c.min_prefix_length < 1

\* C10: building a configuration with max_entries < 1, max_memory_mb <= 0,
\* default_ttl_seconds < 0, an unknown eviction policy or
\* min_prefix_length < 1 fails with a configuration error, and no manager is
\* created from it.
C10_InvalidConfigRejected ==
    (pc # "config" /\ InvalidConfig(config)) =>
        (pc = "error" /\ config_error # "ok")

\* A store call was just made with tokens whose key was in the map.
DuplicateStoreStep ==
    StoreStep /\ compute_cache_key(last'.tokens) \in Keys(entries)

C12_ShortStoreRefused ==
    [][(StoreStep /\ Len(last'.tokens) < config.min_prefix_length) =>
        /\ last'.key = ""
        /\ ~last'.raised
        /\ last'.evicted = <<>>
        /\ UNCHANGED <<trie, entries, total_memory_bytes, stats>>]_vars

\* A store of a non-empty but too short sequence made on a full map.
C12_Witness ==
    /\ last.op = "store"
    /\ last.tokens # <<>>
    /\ Len(last.tokens) < config.min_prefix_length
    /\ last.key = ""
    /\ Len(entries) = config.max_entries

\* The length of the longest sequence marked in the index that is a prefix
\* of q (0 when there is none).
IndexMatchLength(T, q) ==
    LET marked == {p[1] : p \in Range(get_all_entries(T))}
        lens == {Len(t) : t \in {u \in marked : IsPrefix(u, q)}}
    IN IF lens = {} THEN 0 ELSE CHOOSE n \in lens : \A k \in lens : k <= n

\* C13: every hit lookup returns has matched_length >= min_prefix_length,
\* and a query whose longest match in the index is shorter than
\* min_prefix_length (a partial match of a stored edge counts for nothing)
\* is a miss. Checked for the lookup just made and, in every state, for
\* every query under every threshold n, the configured one and those a
\* caller sets on the (mutable) config after entries were admitted.
C13_HitsReachMinPrefixLength ==
    /\ (last.op = "lookup" /\ last.match.hit)
       => last.match.matched_length >= config.min_prefix_length
    /\ \A q \in TokenSeqs, n \in 1..(MaxLen + 1) :
           LET r == lookup([config EXCEPT !.min_prefix_length = n], M, q, now).match
           IN /\ r.hit => r.matched_length >= n
              /\ IndexMatchLength(trie, q) < n => ~r.hit

\* A miss on a query that shares only the first token of a stored sequence,
\* under min_prefix_length = 2.
C13_Witness ==
    /\ config.min_prefix_length = 2
    /\ last.op = "lookup"
    /\ ~last.match.hit
    /\ last.tokens # <<>>
    /\ \E e \in Range(entries) :
           /\ e.tokens[1] = last.tokens[1]
           /\ ~IsPrefix(e.tokens, last.tokens)

\* C14: every live entry has a byte footprint > 0 (the supplied value when
\* that is > 0, len(tokens) * 2048 otherwise), whatever int the caller of
\* store supplied.
C14_FootprintPositive ==
    \A e \in Range(entries) :
        /\ e.memory_bytes > 0
        /\ e.memory_bytes \in {b \in AnyMemoryBytesInputs : b > 0}
                              \cup {Len(e.tokens) * BYTES_PER_TOKEN_DEFAULT}

\* A lookup call was just made.
LookupStep == ops' = ops + 1 /\ last'.op = "lookup"

\* C15: every lookup adds one to total_lookups and len(tokens) to
\* total_tokens_requested, and adds one to exactly one of cache_hits (when it
\* returns a hit) and cache_misses (when it returns a miss); in every
\* reachable state total_lookups = cache_hits + cache_misses and
\* total_tokens_served <= total_tokens_requested.
C15_LookupCounters ==
    /\ [](/\ stats.total_lookups = stats.cache_hits + stats.cache_misses
          /\ stats.total_tokens_served <= stats.total_tokens_requested)
    /\ [][LookupStep =>
           /\ stats'.total_lookups = stats.total_lookups + 1
           /\ stats'.total_tokens_requested
                  = stats.total_tokens_requested + Len(last'.tokens)
           /\ IF last'.match.hit
              THEN /\ stats'.cache_hits = stats.cache_hits + 1
                   /\ stats'.cache_misses = stats.cache_misses
              ELSE /\ stats'.cache_hits = stats.cache_hits
                   /\ stats'.cache_misses = stats.cache_misses + 1]_vars

\* A partial hit made after a miss: fewer tokens served than requested.
C15_Witness ==
    /\ last.op = "lookup"
    /\ last.match.hit
    /\ last.match.matched_length < Len(last.tokens)
    /\ stats.cache_hits = 1
    /\ stats.cache_misses = 1
    /\ stats.total_lookups = 2
    /\ stats.total_tokens_served < stats.total_tokens_requested

\* What a lookup of q may return, given the map es it leaves behind.
WellFormedMatch(q, match, es) ==
    /\ match.total_length = Len(q)
    /\ IF match.hit
       THEN /\ match.matched_length \in 1..Len(q)
            /\ match.matched_tokens = SubSeq(q, 1, match.matched_length)
            /\ match.remaining_tokens = SubSeq(q, match.matched_length + 1, Len(q))
            /\ match.matched_tokens \o match.remaining_tokens = q
            /\ match.cache_key \in Keys(es)
            /\ EntryOf(es, match.cache_key).tokens = match.matched_tokens
       ELSE /\ match.matched_length = 0
            /\ match.cache_key = ""
            /\ match.matched_tokens = <<>>
            /\ match.remaining_tokens = <<>>

\* C16: the result of lookup(tokens) has total_length = len(tokens); on a
\* hit matched_tokens = tokens[:matched_length], remaining_tokens =
\* tokens[matched_length:], the two together are tokens, and the live entry
\* under cache_key has tokens = matched_tokens; on a miss matched_length = 0,
\* cache_key is empty and both token fields are empty. Checked for the
\* lookup just made and, in every state, for every query.
C16_LookupResultShape ==
    /\ last.op = "lookup" => WellFormedMatch(last.tokens, last.match, entries)
    /\ \A q \in TokenSeqs :
           LET r == lookup(config, M, q, now)
           IN WellFormedMatch(q, r.match, r.m.entries)

\* A hit on a proper prefix of the query, with a second entry in the map.
C16_Witness ==
    /\ last.op = "lookup"
    /\ last.match.hit
    /\ last.match.remaining_tokens # <<>>
    /\ last.match.matched_tokens # <<>>
    /\ Len(entries) = 2

\* C17: a lookup hit leaves the map as it was except that the matched entry
\* is moved to the most-recently-used end with access_count one higher and
\* last_accessed set to the current time (every other entry, shorter stored
\* prefixes of the query included, keeps its fields and its place relative
\* to the others); cache_hits grows by one, total_tokens_served by
\* matched_length; the index, the byte total and evictions are unchanged.
C17_HitTouchesOnlyTheMatch ==
    [][(LookupStep /\ last'.match.hit) =>
        LET k == last'.match.cache_key
            i == IndexOf(entries, k)
        IN /\ k \in Keys(entries)
           /\ entries' = Append(RemoveAt(entries, i),
                                [entries[i] EXCEPT !.access_count = @ + 1,
                                                   !.last_accessed = now])
           /\ Keys(entries') = Keys(entries)
           /\ stats'.cache_hits = stats.cache_hits + 1
           /\ stats'.total_tokens_served
                  = stats.total_tokens_served + last'.match.matched_length
           /\ stats'.evictions = stats.evictions
           /\ UNCHANGED <<trie, total_memory_bytes>>]_vars

\* A hit on the longer of two stored prefixes of the query: the shorter one,
\* never accessed, now sits at the least-recently-used end.
C17_Witness ==
    /\ last.op = "lookup"
    /\ last.match.hit
    /\ Len(entries) = 2
    /\ entries[2].cache_key = last.match.cache_key
    /\ entries[2].access_count = 1
    /\ entries[1].access_count = 0
    /\ IsPrefix(entries[1].tokens, last.tokens)
    /\ Len(entries[1].tokens) < last.match.matched_length

\* The (tokens, key) pairs marked in the index.
Marked(T) == Range(get_all_entries(T))

\* An evict call was just made.
EvictStep == ops' = ops + 1 /\ last'.op = "evict"

\* C18: evict(key) returns true exactly when key is in the map. Then the
\* entry leaves the map (the others keep their order), its marker leaves the
\* index (the others stay), the byte total drops by its footprint and
\* evictions grows by one, the other counters staying. Otherwise it returns
\* false and the map, the index, the byte total and the counters are
\* unchanged. It raises in neither case.
C18_EvictByKey ==
    [][EvictStep =>
        /\ ~last'.raised
        /\ last'.ok <=> last'.key \in Keys(entries)
        /\ IF last'.key \in Keys(entries)
           THEN LET i == IndexOf(entries, last'.key)
                    e == entries[i]
                IN /\ entries' = RemoveAt(entries, i)
                   /\ Marked(trie') = Marked(trie) \ {<<e.tokens, e.cache_key>>}
                   /\ <<e.tokens, e.cache_key>> \in Marked(trie)
                   /\ trie'.size = trie.size - 1
                   /\ find_longest_prefix(trie', e.tokens)[1] < Len(e.tokens)
                   /\ total_memory_bytes' = total_memory_bytes - e.memory_bytes
                   /\ stats' = [stats EXCEPT !.evictions = @ + 1]
           ELSE UNCHANGED <<trie, entries, total_memory_bytes, stats>>]_vars

\* An evict of a live entry whose tokens are a prefix of those of the entry
\* that stays.
C18_Witness ==
    /\ last.op = "evict"
    /\ last.ok
    /\ last.evicted = <<last.key>>
    /\ Len(entries) = 1
    /\ stats.evictions = 1
    /\ last.key = compute_cache_key(SubSeq(entries[1].tokens, 1, 1))
    /\ Len(entries[1].tokens) = 2

\* A clear call was just made.
ClearStep == ops' = ops + 1 /\ last'.op = "clear"

\* C19: after clear() the map is empty, the byte total is zero, the index
\* is a fresh tree (no marker, size 0) and the counters are what they were;
\* and as long as the map is empty (until the next admission) every lookup
\* is a miss.
C19_ClearEmptiesTheStore ==
    /\ [][ClearStep =>
           /\ entries' = <<>>
           /\ total_memory_bytes' = 0
           /\ Marked(trie') = {}
           /\ trie'.size = 0
           /\ trie' = RadixTrie
           /\ stats' = stats
           /\ stats_of(M)'.entries_count = 0]_vars
    /\ [](entries = <<>> =>
              \A q \in TokenSeqs : ~lookup(config, M, q, now).match.hit)

\* store, a lookup that hit, then clear: the map is empty, the hit is still
\* counted.
C19_Witness ==
    /\ last.op = "clear"
    /\ ops = 3
    /\ stats.cache_hits = 1
    /\ stats.total_tokens_served > 0
    /\ entries = <<>>
    /\ total_memory_bytes = 0

\* C20: across every call (store, lookup, evict, clear, analyze_batch) and
\* every advance of the clock, an entry that is in the map before and after
\* keeps its tokens, key, artifact, token_count, byte footprint and
\* created_at, and its access_count does not decrease; in every reachable
\* state each entry has last_accessed >= created_at.
C20_EntryIdentityImmutable ==
    /\ [][\A e \in Range(entries), f \in Range(entries') :
              (e.cache_key = f.cache_key \/ e.tokens = f.tokens) =>
                  /\ f.tokens = e.tokens
                  /\ f.cache_key = e.cache_key
                  /\ f.kv_data = e.kv_data
                  /\ f.token_count = e.token_count
                  /\ f.memory_bytes = e.memory_bytes
                  /\ f.created_at = e.created_at
                  /\ f.access_count >= e.access_count
                  /\ f.last_accessed >= e.last_accessed]_vars
    /\ [](\A e \in Range(entries) : e.last_accessed >= e.created_at)

\* An analyze_batch call on a store holding an entry that was accessed after
\* the clock moved on from its admission.
C20_Witness ==
    /\ last.op = "analyze_batch"
    /\ Len(entries) = 1
    /\ entries[1].access_count = 1
    /\ entries[1].last_accessed > entries[1].created_at

\* The stored sequences that are a prefix of q.
StoredPrefixes(q) == {p \in DOMAIN stored : IsPrefix(p, q)}

\* What find_longest_prefix(q) is to return, from the record of what was
\* inserted and not removed since.
LongestStored(q) ==
    IF StoredPrefixes(q) = {} THEN <<0, None>>
    ELSE LET p == CHOOSE x \in StoredPrefixes(q) :
                      \A y \in StoredPrefixes(q) : Len(y) <= Len(x)
         IN <<Len(p), stored[p]>>

\* C22: after any sequence of inserts and removes, find_longest_prefix(q)
\* returns (len(p), k) for the longest currently stored sequence p that is
\* a prefix of q, k being the key inserted last for p, and (0, None) when no
\* stored sequence is a prefix of q.
C22_FindLongestStoredPrefix ==
    \A q \in TrieSeqs : find_longest_prefix(trie, q) = LongestStored(q)

\* Under stored (1) re-inserted with a second key and (1,1,1) hanging from
\* it on a two-token edge, the query (1,1,2) leaves that edge midway and
\* gets (1) with its latest key; a remove was made on the way.
C22_Witness ==
    /\ pc = "trie"
    /\ last.op = "remove"
    /\ <<1>> \in DOMAIN stored
    /\ <<1, 1, 1>> \in DOMAIN stored
    /\ stored[<<1>>] = "k2"
    /\ stored[<<1, 1, 1>>] = "k1"
    /\ trie.nodes[<<1, 1, 1>>].tokens = <<1, 1>>
    /\ find_longest_prefix(trie, <<1, 1, 2>>) = <<1, "k2">>

\* An insert call was just made on the trie.
TrieInsertStep == ops' = ops + 1 /\ last'.op = "insert"

\* A remove call was just made on the trie.
TrieRemoveStep == ops' = ops + 1 /\ last'.op = "remove"

\* C21: on any trie reached by inserts and removes, right after
\* insert(s, k) with len(s) >= 1, find_longest_prefix(s) returns (len(s), k).
C21_InsertThenFind ==
    [][(TrieInsertStep /\ last'.tokens # <<>>) =>
        find_longest_prefix(trie', last'.tokens)
            = <<Len(last'.tokens), last'.key>>]_vars

\* Two inserts, the second of a proper prefix of the first: it split the
\* edge and ended at the split node, which now carries its key.
C21_Witness ==
    /\ pc = "trie"
    /\ ops = 2
    /\ last.op = "insert"
    /\ last.tokens \in DOMAIN trie.nodes
    /\ DOMAIN trie.nodes[last.tokens].children # {}
    /\ trie.nodes[last.tokens].cache_key = last.key
    /\ trie.size = 2

\* The rest of the index is as it was: every other stored sequence is found
\* as before.
OthersFoundAsBefore ==
    \A t \in (DOMAIN stored) \ {last'.tokens} :
        find_longest_prefix(trie', t) = find_longest_prefix(trie, t)

\* C23 as stated: after remove(s) of a sequence stored under k,
\* find_longest_prefix(s) never returns the key k, and every other stored
\* sequence is found as before.
C23_RemovedKeyNeverReturned ==
    [][(TrieRemoveStep /\ last'.tokens \in DOMAIN stored) =>
        /\ find_longest_prefix(trie', last'.tokens)[2] # stored[last'.tokens]
        /\ OthersFoundAsBefore]_vars

\* C23 as amended: after remove(s) of a stored sequence,
\* find_longest_prefix(s) returns (0, None) or the length and marker of the
\* longest stored proper prefix of s, so never a match of length len(s) (the
\* key returned is k only when that prefix was inserted under the same key);
\* every other stored sequence is found as before.
C23_RemovedSequenceNotFound ==
    [][(TrieRemoveStep /\ last'.tokens \in DOMAIN stored) =>
        LET s == last'.tokens
            found == find_longest_prefix(trie', s)
            shorter == {p \in (DOMAIN stored) \ {s} : IsPrefix(p, s)}
        IN /\ found[1] < Len(s)
           /\ IF shorter = {} THEN found = <<0, None>>
              ELSE /\ SubSeq(s, 1, found[1]) \in shorter
                   /\ found[2] = stored[SubSeq(s, 1, found[1])]
                   /\ \A p \in shorter : Len(p) <= found[1]
           /\ OthersFoundAsBefore]_vars

\* A remove of a stored sequence that has a stored prefix and a stored
\* extension: it is now found at the prefix, the extension as before.
C23_Witness ==
    /\ pc = "trie"
    /\ last.op = "remove"
    /\ last.ok
    /\ Len(last.tokens) = 2
    /\ \E p, e \in DOMAIN stored :
           /\ Len(p) = 1 /\ IsPrefix(p, last.tokens)
           /\ Len(e) = 3 /\ IsPrefix(last.tokens, e)
           /\ find_longest_prefix(trie, last.tokens) = <<1, stored[p]>>
           /\ find_longest_prefix(trie, e) = <<3, stored[e]>>

\* C24: remove(s) returns true exactly when s is stored; then exactly its
\* marker leaves the index and size drops by one; otherwise (s empty, ending
\* inside an edge, ending at a node without a marker, or leaving every
\* stored path) it returns false and the trie, size included, is unchanged.
C24_RemoveReportsStored ==
    [][TrieRemoveStep =>
        /\ last'.ok <=> last'.tokens \in DOMAIN stored
        /\ IF last'.tokens \in DOMAIN stored
           THEN /\ Marked(trie')
                       = Marked(trie) \ {<<last'.tokens, stored[last'.tokens]>>}
                /\ <<last'.tokens, stored[last'.tokens]>> \in Marked(trie)
                /\ trie'.size = trie.size - 1
                /\ trie'.size = Cardinality(DOMAIN stored')
           ELSE trie' = trie]_vars

\* A remove, refused, of a sequence that ends at a node without a marker: a
\* split node with two children.
C24_Witness ==
    /\ pc = "trie"
    /\ last.op = "remove"
    /\ ~last.ok
    /\ last.tokens # <<>>
    /\ last.tokens \in DOMAIN trie.nodes
    /\ trie.nodes[last.tokens].cache_key = None
    /\ Cardinality(DOMAIN trie.nodes[last.tokens].children) = 2
    /\ trie.size = 2

\* analyze_batch has returned its analysis of token_sequences.
Analyzed == pc = "ready" /\ last.op = "analyze_batch"

\* The (0-based) indices of the batch and the sequence at one of them.
Indices == 0..(Len(token_sequences) - 1)

SeqAt(i) == token_sequences[i + 1]

\* The prefixes, of any length, of the sequences of the batch.
BatchPrefixes ==
    UNION {{SubSeq(SeqAt(i), 1, n) : n \in 0..Len(SeqAt(i))} : i \in Indices}

\* The groups returned, the members of one and the prefix its key names.
Groups == analysis.shared_prefix_groups

Members(k) == Range(Groups[k])

GroupPrefix(k) == CHOOSE p \in BatchPrefixes : prefix_key(p) = k

\* The length of the longest common prefix of two sequences.
CommonLen(a, b) ==
    LET ns == {n \in 0..Len(a) : n <= Len(b) /\ SubSeq(a, 1, n) = SubSeq(b, 1, n)}
    IN CHOOSE n \in ns : \A x \in ns : x <= n

\* The length of the longest prefix the sequence at i shares with another
\* sequence of the batch (0 when it is alone).
LongestShared(i) ==
    LET ns == {CommonLen(SeqAt(i), SeqAt(j)) : j \in Indices \ {i}} \cup {0}
    IN CHOOSE n \in ns : \A x \in ns : x <= n

\* C25: every index placed in a group by analyze_batch is assigned to the
\* longest prefix of its sequence (of length >= min_prefix_length) that it
\* shares with another sequence of the batch, never to a shorter one.
C25_AssignedToLongestShared ==
    Analyzed =>
        \A k \in DOMAIN Groups : \A i \in Members(k) :
            Len(GroupPrefix(k)) = LongestShared(i)

\* C26: the groups returned by analyze_batch are pairwise disjoint, each
\* has at least two (distinct) indices, every member's sequence starts with
\* the group's prefix and that prefix has length >= min_prefix_length; an
\* index whose sequence shares no prefix of that length with another
\* sequence is in no group; and when the sequences that start with a prefix
\* of that length are two or more and no two of them share anything longer,
\* exactly they form one group, under that prefix.
C26_GroupsWellFormed ==
    Analyzed =>
        /\ \A k1, k2 \in DOMAIN Groups :
               k1 # k2 => Members(k1) \cap Members(k2) = {}
        /\ \A k \in DOMAIN Groups :
               /\ Cardinality(Members(k)) >= 2
               /\ Cardinality(Members(k)) = Len(Groups[k])
               /\ Members(k) \subseteq Indices
               /\ Len(GroupPrefix(k)) >= config.min_prefix_length
               /\ \A i \in Members(k) : IsPrefix(GroupPrefix(k), SeqAt(i))
        /\ \A i \in Indices :
               LongestShared(i) < config.min_prefix_length =>
                   \A k \in DOMAIN Groups : i \notin Members(k)
        /\ \A p \in BatchPrefixes :
               LET I == {i \in Indices : IsPrefix(p, SeqAt(i))}
               IN (/\ Len(p) >= config.min_prefix_length
                   /\ Cardinality(I) >= 2
                   /\ \A i, j \in I :
                          i # j => CommonLen(SeqAt(i), SeqAt(j)) = Len(p))
                  => /\ prefix_key(p) \in DOMAIN Groups
                     /\ Members(prefix_key(p)) = I
                     /\ \A k \in DOMAIN Groups :
                            Members(k) \cap I # {} => k = prefix_key(p)

\* With min_prefix_length 2: three sequences that start with one two-token
\* prefix and share nothing longer form a group, and a fourth sequence long
\* enough but sharing nothing with them is in none.
C26_Witness ==
    /\ Analyzed
    /\ config.min_prefix_length = 2
    /\ \E k \in DOMAIN Groups :
           /\ Cardinality(Members(k)) = 3
           /\ Len(GroupPrefix(k)) = 2
    /\ \E i \in Indices :
           /\ Len(SeqAt(i)) >= 2
           /\ LongestShared(i) = 0
           /\ \A k \in DOMAIN Groups : i \notin Members(k)

\* shared_groups and assigned as the second pass of analyze_batch leaves them.
Walked ==
    group_walk(config, token_sequences,
               sorted_prefixes(analysis_trie_keys(config, token_sequences, 0, <<>>),
                               longest_length(token_sequences)),
               <<>>, <<>>)

\* The sum over the groups with keys in ks of (size - 1) * prefix length.
RECURSIVE DuplicatedTokens(_)
DuplicatedTokens(ks) ==
    IF ks = {} THEN 0
    ELSE LET k == CHOOSE x \in ks : TRUE
         IN (Cardinality(Members(k)) - 1) * Len(GroupPrefix(k))
            + DuplicatedTokens(ks \ {k})

\* C27: in analyze_batch all members of a group carry the same assigned
\* length, the length of the group's prefix, so potential_savings_tokens is
\* the sum over the groups of (group size - 1) * (length of the group's
\* prefix); it is never negative and never more than total_tokens.
C27_SavingsArithmetic ==
    Analyzed =>
        /\ LET walked == Walked
           IN /\ walked.shared_groups = Groups
              /\ \A k \in DOMAIN Groups : \A i \in Members(k) :
                     /\ i \in DOMAIN walked.assigned
                     /\ walked.assigned[i] = Len(GroupPrefix(k))
        /\ analysis.potential_savings_tokens = DuplicatedTokens(DOMAIN Groups)
        /\ analysis.potential_savings_tokens >= 0
        /\ analysis.potential_savings_tokens <= analysis.total_tokens
        /\ analysis.total_tokens = sum_lengths(token_sequences)

\* Two groups with prefixes of different lengths, four indices grouped and
\* a saving of four tokens.
C27_Witness ==
    /\ Analyzed
    /\ \E k1, k2 \in DOMAIN Groups :
           /\ Len(GroupPrefix(k1)) = 3
           /\ Len(GroupPrefix(k2)) = 1
           /\ Cardinality(Members(k1)) = 2
           /\ Cardinality(Members(k2)) = 2
    /\ analysis.potential_savings_tokens = 4
    /\ analysis.total_tokens = 11

\* An analyze_batch call was just made on the store.
AnalyzeStep == ops' = ops + 1 /\ last'.op = "analyze_batch"

Agree(m) ==
    /\ Marked(m.trie) = {<<m.entries[i].tokens, m.entries[i].cache_key>> :
                            i \in 1..Len(m.entries)}
    /\ m.trie.size = Len(m.entries)
    /\ m.total_memory_bytes = SumBytes(m.entries)

\* C29 as stated: at every point where another caller can look at the
\* store, between any two statements of a running store or eviction
\* included, the map, the index and the byte total agree.
C29_NoPartialUpdateVisible == pc = "ready" => Agree(M)

\* C29 as amended: with calls serialised by the caller (the single-writer
\* discipline), the three agree whenever no call is in progress, and a
\* store or evict that ran to its end leaves the manager the whole
\* operation gives when applied to the manager the call found.
C29_AgreeBetweenCalls ==
    /\ [](running.at = "idle" => Agree(M))
    /\ [][(running.op = "store" /\ running'.at = "idle") =>
            M' = store(config, running.before, running.tokens,
                       running.entry.kv_data, running.entry.memory_bytes,
                       now).m]_vars
    /\ [][(running.op = "evict" /\ running'.at = "idle") =>
            M' = evict_entry(running.before, running.victim_key).m]_vars

\* A store has run to its end after evicting an entry on its way, and the
\* three agree again.
C29_Witness ==
    /\ running.at = "idle"
    /\ last.op = "store"
    /\ last.key # ""
    /\ last.evicted # <<>>
    /\ stats.evictions >= 1
    /\ Len(entries) >= 1
    /\ Agree(M)

\* C30: the record returned by stats is a snapshot: whatever is done on the
\* store after the call, the counters of the record read as they did when
\* it was returned.
C30_StatsIsSnapshot ==
    returned.ref # None => read_fields(returned) = returned.seen

\* The nodes of T that carry a marker.
MarkedNodes(T) == {n \in DOMAIN T.nodes : T.nodes[n].cache_key # None}

\* The nodes that register n as a child.
Parents(T, n) ==
    {q \in DOMAIN T.nodes :
        \E t \in DOMAIN T.nodes[q].children : T.nodes[q].children[t] = n}

\* C31: after any sequence of insert and remove, every non-root node has a
\* non-empty edge label and one parent, every child is registered in its
\* parent under the first token of its own label (so the labels of siblings
\* start with distinct tokens), and size is the number of nodes with a
\* marker; re-inserting a stored sequence overwrites its marker and leaves
\* size as it was.
C31_TrieStructure ==
    /\ [](pc = "trie" =>
            /\ \A n \in (DOMAIN trie.nodes) \ {trie.root} :
                   /\ trie.nodes[n].tokens # <<>>
                   /\ Cardinality(Parents(trie, n)) = 1
            /\ Parents(trie, trie.root) = {}
            /\ \A q \in DOMAIN trie.nodes :
                   \A t \in DOMAIN trie.nodes[q].children :
                       LET child == trie.nodes[q].children[t]
                       IN /\ child \in DOMAIN trie.nodes
                          /\ trie.nodes[child].tokens # <<>>
                          /\ trie.nodes[child].tokens[1] = t
                          /\ child = q \o trie.nodes[child].tokens
            /\ trie.size = Cardinality(MarkedNodes(trie)))
    /\ [][(TrieInsertStep /\ last'.tokens \in DOMAIN stored) =>
            /\ trie'.size = trie.size
            /\ trie'.nodes[last'.tokens].cache_key = last'.key
            /\ MarkedNodes(trie') = MarkedNodes(trie)]_vars

\* A stored sequence was inserted again under the second key, below a split
\* node without a marker that has two children.
C31_Witness ==
    /\ pc = "trie"
    /\ last.op = "insert"
    /\ last.key = "k2"
    /\ ops = MaxOps
    /\ trie.size = 2
    /\ \A t \in DOMAIN stored : t = last.tokens \/ stored[t] = "k1"
    /\ \E n \in (DOMAIN trie.nodes) \ {trie.root} :
           /\ trie.nodes[n].cache_key = None
           /\ Cardinality(DOMAIN trie.nodes[n].children) = 2
           /\ last.tokens \in Range(trie.nodes[n].children)

\* C32: the trie refines a map from sequences to keys: after any sequence
\* of insert and remove, get_all_entries() lists each stored sequence once,
\* with the key of its latest insert, and nothing else; an insert or remove
\* of one sequence leaves the listed pairs of all others as they were.
C32_RefinesMap ==
    /\ [](pc = "trie" =>
            /\ Range(get_all_entries(trie))
                   = {<<t, stored[t]>> : t \in DOMAIN stored}
            /\ Len(get_all_entries(trie)) = Cardinality(DOMAIN stored))
    /\ [][(TrieInsertStep \/ TrieRemoveStep) =>
            {e \in Range(get_all_entries(trie')) : e[1] # last'.tokens}
                = {e \in Range(get_all_entries(trie)) : e[1] # last'.tokens}]_vars

\* Three stored sequences are listed; one is a prefix of another, which
\* hangs below it on the rest of its path and has a different key, and an
\* unmarked split node lies in the trie.
C32_Witness ==
    /\ pc = "trie"
    /\ Len(get_all_entries(trie)) = 3
    /\ \E a, b \in DOMAIN stored :
           /\ a # b
           /\ IsPrefix(a, b)
           /\ Len(trie.nodes[b].tokens) < Len(b)
           /\ stored[a] # stored[b]
    /\ \E n \in (DOMAIN trie.nodes) \ {trie.root} : trie.nodes[n].cache_key = None

\* C33: insert of the empty sequence is a no-op, so the root never carries
\* a marker; find_longest_prefix returns no key exactly when it returns
\* matched length 0, and for the empty sequence it returns (0, no key).
C33_RootNeverMarked ==
    /\ [](pc = "trie" =>
            /\ trie.nodes[trie.root].cache_key = None
            /\ \A q \in TrieSeqs :
                   (find_longest_prefix(trie, q)[2] = None)
                       <=> (find_longest_prefix(trie, q)[1] = 0)
            /\ find_longest_prefix(trie, <<>>) = <<0, None>>)
    /\ [][(TrieInsertStep /\ last'.tokens = <<>>) => trie' = trie]_vars

\* The empty sequence was just inserted into a trie that holds an entry;
\* a query that matches nothing stored gets (0, no key).
C33_Witness ==
    /\ pc = "trie"
    /\ last.op = "insert"
    /\ last.tokens = <<>>
    /\ trie.size = 1
    /\ \E q \in TrieSeqs : q # <<>> /\ find_longest_prefix(trie, q) = <<0, None>>

\* The longest entry of the map that is a prefix of q is long enough to be
\* a hit and is TTL-expired now.
ExpiredLongest(q) ==
    /\ PrefixEntries(entries, q) # {}
    /\ Len(LongestPrefixEntry(entries, q).tokens) >= config.min_prefix_length
    /\ is_expired(config, LongestPrefixEntry(entries, q), now)

\* C34: when the longest matching entry of a query is TTL-expired, lookup
\* evicts exactly that entry (map, index marker, byte total, evictions + 1)
\* and returns a miss, even if a shorter stored prefix of the query is not
\* expired; every other entry keeps its fields and its place.
C34_ExpiredLongestIsEvicted ==
    [][(LookupStep /\ ExpiredLongest(last'.tokens)) =>
        LET e == LongestPrefixEntry(entries, last'.tokens) IN
        /\ last'.match = MissMatch(Len(last'.tokens))
        /\ last'.evicted = <<e.cache_key>>
        /\ entries' = RemoveAt(entries, IndexOf(entries, e.cache_key))
        /\ Marked(trie') = Marked(trie) \ {<<e.tokens, e.cache_key>>}
        /\ <<e.tokens, e.cache_key>> \in Marked(trie)
        /\ total_memory_bytes' = total_memory_bytes - e.memory_bytes
        /\ stats'.evictions = stats.evictions + 1
        /\ stats'.cache_misses = stats.cache_misses + 1
        /\ stats'.cache_hits = stats.cache_hits]_vars

\* A lookup missed and evicted its expired longest match while a shorter
\* stored prefix of the query, not expired and never accessed, stays.
C34_Witness ==
    /\ last.op = "lookup"
    /\ ~last.match.hit
    /\ last.evicted # <<>>
    /\ stats.evictions = 1
    /\ \E e \in Range(entries) :
           /\ IsPrefix(e.tokens, last.tokens)
           /\ Len(e.tokens) >= config.min_prefix_length
           /\ ~is_expired(config, e, now)
           /\ e.access_count = 0

\* C35: a lookup that misses for a reason other than TTL expiry changes
\* total_lookups, total_tokens_requested and cache_misses only: the map
\* with its order and every access_count, the index, the byte total and the
\* other counters are as they were.
C35_MissLeavesStoreAlone ==
    [][(LookupStep /\ ~last'.match.hit /\ ~ExpiredLongest(last'.tokens)) =>
        /\ entries' = entries
        /\ trie' = trie
        /\ total_memory_bytes' = total_memory_bytes
        /\ stats' = [stats EXCEPT
                        !.total_lookups = @ + 1,
                        !.total_tokens_requested = @ + Len(last'.tokens),
                        !.cache_misses = @ + 1]]_vars

\* A miss on a query that shares its first token with a stored entry
\* without having it as a prefix, in a store with two entries and an
\* earlier hit.
C35_Witness ==
    /\ last.op = "lookup"
    /\ ~last.match.hit
    /\ last.evicted = <<>>
    /\ Len(entries) = 2
    /\ stats.cache_hits = 1
    /\ \E e \in Range(entries) :
           /\ last.tokens # <<>>
           /\ e.tokens[1] = last.tokens[1]
           /\ ~IsPrefix(e.tokens, last.tokens)

\* C36: in every state reached through store, lookup, evict and clear, the
\* key the index returns for a query is a key of the map, so the branch of
\* lookup that returns a miss for a key missing from the map is not taken.
C36_IndexKeysAreLive ==
    \A q \in SeqsUpTo(MaxLen + 1) :
        find_longest_prefix(trie, q)[2] # None =>
            find_longest_prefix(trie, q)[2] \in Keys(entries)

\* A lookup of a sequence that was stored and evicted: its node is still in
\* the index, without a marker, and the lookup missed on the first test.
C36_Witness ==
    /\ last.op = "lookup"
    /\ ~last.match.hit
    /\ last.evicted = <<>>
    /\ last.tokens # <<>>
    /\ last.tokens \in DOMAIN trie.nodes
    /\ trie.nodes[last.tokens].cache_key = None
    /\ stats.evictions >= 1

Admitted == StoreStep /\ last'.key \notin Keys(entries) \cup {""}

\* The bytes of the first k entries of the list of evicted keys ks, taken
\* from the map es.
RECURSIVE EvictedBytes(_, _, _)
EvictedBytes(es, ks, k) ==
    IF k = 0 THEN 0
    ELSE EntryOf(es, ks[k]).memory_bytes + EvictedBytes(es, ks, k - 1)

\* After k of the evictions of the store just made, the loop has nothing
\* left to do: the map is empty, or there is room for one more entry and
\* for needed bytes.
RoomAfter(k, needed) ==
    \/ Len(entries) - k = 0
    \/ /\ Len(entries) - k < config.max_entries
       /\ total_memory_bytes - EvictedBytes(entries, last'.evicted, k) + needed
              <= max_memory_bytes(config)

\* C38: admission evicts no more than needed: a store of a new entry evicts
\* nothing when the entry count is below max_entries and the byte total
\* plus the new footprint is within the budget, exactly one entry when only
\* the entry-count limit is reached, and in general stops at the first
\* point where both conditions hold or the map is empty.
C38_EvictsNoMoreThanNeeded ==
    [][Admitted =>
        LET needed == EntryOf(entries', last'.key).memory_bytes
            n == Len(last'.evicted)
        IN /\ n <= Len(entries)
           /\ RoomAfter(n, needed)
           /\ \A k \in 0..(n - 1) : ~RoomAfter(k, needed)
           /\ (/\ Len(entries) < config.max_entries
               /\ total_memory_bytes + needed <= max_memory_bytes(config))
              => n = 0
           /\ (/\ Len(entries) >= config.max_entries
               /\ total_memory_bytes + needed <= max_memory_bytes(config))
              => n = 1
           /\ Len(entries') = Len(entries) - n + 1]_vars

\* A store of a 4096-byte entry under a 4096-byte budget found two entries
\* of 2048 bytes: one eviction left too many bytes, the second made room.
C38_Witness ==
    /\ last.op = "store"
    /\ Len(last.evicted) = 2
    /\ Len(entries) = 1
    /\ max_memory_bytes(config) = 4096
    /\ total_memory_bytes = 4096
    /\ stats.evictions = 2

\* C39: stats.evictions counts the entries removed by evict, by automatic
\* eviction and by TTL invalidation, and nothing else: on every call other
\* than clear the number of live entries changes by the admission made (one
\* or none) minus the growth of evictions, which is the number of entries
\* the call evicted, so that without clear admissions - evictions = live
\* entries; evictions never decreases; clear empties the map and leaves
\* evictions as it was.
C39_EvictionsCountRemovals ==
    /\ [][(ops' = ops + 1 /\ last'.op # "clear") =>
            LET admitted == IF Admitted THEN 1 ELSE 0 IN
            /\ Len(entries') - Len(entries)
                   = admitted - (stats'.evictions - stats.evictions)
            /\ stats'.evictions - stats.evictions = Len(last'.evicted)
            /\ Keys(entries) \ Keys(entries') = Range(last'.evicted)]_vars
    /\ [][stats'.evictions >= stats.evictions]_vars
    /\ [][ClearStep => (entries' = <<>> /\ stats'.evictions = stats.evictions)]_vars

\* Three admissions and two evictions, one asked for by evict and one made
\* by the last store, leave one live entry.
C39_Witness ==
    /\ last.op = "store"
    /\ ops = MaxOps
    /\ Len(last.evicted) = 1
    /\ stats.evictions = 2
    /\ Len(entries) = 1
    /\ stats.total_lookups = 0
====
